---------------------------- MODULE Spec2Model ----------------------------
(***************************************************************************)
(* Model of drivers/net/dwc_eqos/device.cpp: the device context, the       *)
(* interrupt-wanted mask and its two hardware enable registers, the        *)
(* notification slots, the ISR/DPC pipeline and the PnP/power callbacks.   *)
(***************************************************************************)
EXTENDS Integers, Naturals, Sequences, FiniteSets, TLC

(***************************************************************************)
(* Bounds of the model.                                                    *)
(***************************************************************************)
\* Length of the platform resource lists handed to DevicePrepareHardware.
MaxResources == 2

(***************************************************************************)
(* 8-bit and bit-field arithmetic.                                         *)
(***************************************************************************)
Pow2(n) == 2 ^ n

BitSet(x, i) == (x \div Pow2(i)) % 2 = 1

\* a & b on 8-bit patterns
BitAnd8(a, b) ==
    LET f[i \in 0..8] ==
          IF i = 8 THEN 0
          ELSE (IF BitSet(a, i) /\ BitSet(b, i) THEN Pow2(i) ELSE 0) + f[i + 1]
    IN f[0]

\* a | b on 8-bit patterns
BitOr8(a, b) ==
    LET f[i \in 0..8] ==
          IF i = 8 THEN 0
          ELSE (IF BitSet(a, i) \/ BitSet(b, i) THEN Pow2(i) ELSE 0) + f[i + 1]
    IN f[0]

\* ~a truncated to 8 bits
BitNot8(a) == 255 - (a % 256)

(***************************************************************************)
(* enum InterruptsWanted : char.  A char is kept as its 8-bit two's        *)
(* complement pattern, so InterruptsAll = -1 is 255.                       *)
(***************************************************************************)
InterruptsNone == 0
InterruptsState == 1
InterruptsRx == 2
InterruptsTx == 4
InterruptsAll == 255

NULL == "NULL"

\* Bits of ChannelStatus_t that the handlers look at, plus LinkStatusBit,
\* the top bit of DeviceContext::interruptStatus.
LinkStatusBit == "LinkStatus"
ChannelStatusBits == {"Rx", "Tx", "AbnormalInterruptSummary", "FatalBusError"}

VARIABLES
    context,      \* struct DeviceContext
    hw,           \* the device registers behind context.regs (MacRegisters)
    lock,         \* owner of context.lock (WDFSPINLOCK), or "free"
    devState,     \* position of the device in the PnP/power lifecycle
    pnpPc,        \* position of the PnP/power thread inside a callback
    setPc,        \* per direction: position inside DeviceSetNotification*Queue
    setArg,       \* per direction: the queue argument of the call in progress
    dpcQueued,    \* WdfInterruptQueueDpcForIsr has queued the DPC
    dpcPc,        \* position of DeviceInterruptDpc
    dpcStatus,    \* the DPC's local 'status'
    adapter,      \* what the NETADAPTER has been told (link state, addresses, started)
    prep,         \* locals of the DevicePrepareHardware call in progress
    notified,     \* per direction: callbacks delivered since the last registration
    undrained,    \* per status bit: times the ISR set the bit that no exchange has captured yet
    folded,       \* running OR / AND-NOT fold of the enable/disable calls, as a set of classes
    lastCall,     \* the enable/disable call made by the step that led here, if any
    counted       \* the diagnostic counters incremented by the step that led here
                  \* (isrHandled .. dpcFatalBusError are only ever incremented; the
                  \* model keeps their increments, not their unbounded values)

vars == <<context, hw, lock, devState, pnpPc, setPc, setArg, dpcQueued, dpcPc,
          dpcStatus, adapter, prep, notified, undrained, folded, lastCall, counted>>

(***************************************************************************)
(* Register values.                                                        *)
(***************************************************************************)
\* PhyIfSpeed_* : the 2-bit Speed field of MacPhyIfControlStatus.
PhyIfSpeed_2_5M == 0
PhyIfSpeed_25M == 1
PhyIfSpeed_125M == 2

PortSelectSpeed_10M == "PortSelectSpeed_10M"
PortSelectSpeed_100M == "PortSelectSpeed_100M"
PortSelectSpeed_1000M == "PortSelectSpeed_1000M"
PortSelectSpeed_Reset == "PortSelectSpeed_Reset"

ZeroMac == <<0, 0, 0, 0, 0, 0>>
OnesMac == <<255, 255, 255, 255, 255, 255>>

MacConfigurationZero ==
    [ReceiverEnable |-> FALSE, TransmitterEnable |-> FALSE,
     DisableCarrierSenseDuringTransmit |-> FALSE, PacketBurstEnable |-> FALSE,
     FullDuplex |-> FALSE, PortSelectSpeed |-> PortSelectSpeed_Reset]

ChannelInterruptEnableZero ==
    [Rx |-> FALSE, Tx |-> FALSE, NormalInterruptSummary |-> FALSE,
     FatalBusError |-> FALSE, AbnormalInterruptSummary |-> FALSE]

\* What the registers hold after a completed software reset.
HwAfterReset(h) ==
    [h EXCEPT !.MacInterruptEnable = [LinkStatus |-> FALSE],
              !.DmaCh0InterruptEnable = ChannelInterruptEnableZero,
              !.MacInterruptStatus = [LinkStatus |-> FALSE],
              !.DmaCh0Status = {},
              !.MacConfiguration = MacConfigurationZero,
              !.MacAddress0 = [addr |-> OnesMac, enable |-> TRUE],
              !.MtlTxQueueSize = 0,
              !.MtlRxQueueSize = 0,
              !.DmaSysBusModeSet = FALSE,
              !.resetStuck = FALSE]

(***************************************************************************)
(* SetOneMacAddress, for index 0.                                          *)
(***************************************************************************)
SetOneMacAddress(h, addr, enable) ==
    [h EXCEPT !.MacAddress0 = [addr |-> addr, enable |-> enable]]

(***************************************************************************)
(* DeviceReset.  resetPolls is the number of consecutive polls for which   *)
(* DmaMode still reads with the reset bit set.                             *)
(***************************************************************************)
ResetRetries == 1000

\* Read32(&regs->DmaMode) & 1 at the poll-th poll after the reset was written.
ResetBitSet(poll, resetPolls) == poll <= resetPolls

\* First poll in lo..hi that reads the reset bit clear, 0 if there is none.
\* (The loop body in poll order, split in halves to keep the evaluation flat.)
RECURSIVE FirstClearPoll(_, _, _)
FirstClearPoll(lo, hi, resetPolls) ==
    IF lo > hi THEN 0
    ELSE IF lo = hi THEN (IF ResetBitSet(lo, resetPolls) THEN 0 ELSE lo)
    ELSE LET mid == (lo + hi) \div 2
             first == FirstClearPoll(lo, mid, resetPolls)
         IN IF first # 0 THEN first ELSE FirstClearPoll(mid + 1, hi, resetPolls)

\* ResetLoop with one poll too many: retry counted down from 1001.
ResetLoop_ExtraPoll(resetPolls) ==
    LET first == FirstClearPoll(1, ResetRetries + 1, resetPolls)
    IN IF first # 0
       THEN [status |-> "STATUS_SUCCESS", polls |-> first]
       ELSE [status |-> "STATUS_TIMEOUT", polls |-> ResetRetries + 1]

\* for (retry = 1000u; retry != 0; retry -= 1): one poll per value of retry.
ResetLoop(resetPolls) ==
    LET first == FirstClearPoll(1, ResetRetries, resetPolls)
    IN IF first # 0
       THEN [status |-> "STATUS_SUCCESS", polls |-> first]
       ELSE [status |-> "STATUS_TIMEOUT", polls |-> ResetRetries]

\* The numbers of polls with the reset bit set that the device is given, and
\* the outcome of the loop for each of them.
ResetPollInputs == {0, 1, ResetRetries - 1, ResetRetries, ResetRetries + 1}
ResetOutcome == [k \in ResetPollInputs |-> ResetLoop(k)]

DeviceReset(h, mac0, resetPolls) ==
    LET r == ResetOutcome[resetPolls]
    IN IF r.status = "STATUS_SUCCESS"
       THEN [status |-> r.status, polls |-> r.polls,
             hw |-> SetOneMacAddress(HwAfterReset(h), mac0, TRUE)]
       ELSE [status |-> r.status, polls |-> r.polls,
             hw |-> [h EXCEPT !.resetStuck = TRUE]]

(***************************************************************************)
(* UpdateLinkState                                                         *)
(***************************************************************************)
\* UpdateLinkState with the default case of the switch treated as 2.5M.
UpdateLinkState_DefaultIs10M(h) ==
    LET controlStatus == h.MacPhyIfControlStatus
        oldConfig == h.MacConfiguration
        withDuplex == [oldConfig EXCEPT !.FullDuplex = controlStatus.FullDuplex]
        speed == CASE controlStatus.Speed = PhyIfSpeed_25M -> 100000000
                   [] controlStatus.Speed = PhyIfSpeed_125M -> 1000000000
                   [] OTHER -> 10000000
        newConfig == CASE controlStatus.Speed = PhyIfSpeed_25M ->
                            [withDuplex EXCEPT !.PortSelectSpeed = PortSelectSpeed_100M]
                       [] controlStatus.Speed = PhyIfSpeed_125M ->
                            [withDuplex EXCEPT !.PortSelectSpeed = PortSelectSpeed_1000M]
                       [] OTHER ->
                            [withDuplex EXCEPT !.PortSelectSpeed = PortSelectSpeed_10M]
    IN [hw |-> [h EXCEPT !.MacInterruptStatus = [LinkStatus |-> FALSE],
                         !.MacConfiguration =
                             IF oldConfig # newConfig THEN newConfig ELSE oldConfig],
        configWrites |-> IF oldConfig # newConfig THEN 1 ELSE 0,
        linkState |-> [speed |-> speed,
                       connect |-> IF controlStatus.LinkUp
                                   THEN "MediaConnectStateConnected"
                                   ELSE "MediaConnectStateDisconnected",
                       duplex |-> IF controlStatus.FullDuplex
                                  THEN "MediaDuplexStateFull"
                                  ELSE "MediaDuplexStateHalf"]]

UpdateLinkState(h) ==
    LET controlStatus == h.MacPhyIfControlStatus
        oldConfig == h.MacConfiguration
        withDuplex == [oldConfig EXCEPT !.FullDuplex = controlStatus.FullDuplex]
        speed == CASE controlStatus.Speed = PhyIfSpeed_2_5M -> 10000000
                   [] controlStatus.Speed = PhyIfSpeed_25M -> 100000000
                   [] controlStatus.Speed = PhyIfSpeed_125M -> 1000000000
                   [] OTHER -> 0
        newConfig == CASE controlStatus.Speed = PhyIfSpeed_2_5M ->
                            [withDuplex EXCEPT !.PortSelectSpeed = PortSelectSpeed_10M]
                       [] controlStatus.Speed = PhyIfSpeed_25M ->
                            [withDuplex EXCEPT !.PortSelectSpeed = PortSelectSpeed_100M]
                       [] controlStatus.Speed = PhyIfSpeed_125M ->
                            [withDuplex EXCEPT !.PortSelectSpeed = PortSelectSpeed_1000M]
                       [] OTHER -> withDuplex
    IN [hw |-> [h EXCEPT !.MacInterruptStatus = [LinkStatus |-> FALSE],
                         !.MacConfiguration =
                             IF oldConfig # newConfig THEN newConfig ELSE oldConfig],
        configWrites |-> IF oldConfig # newConfig THEN 1 ELSE 0,
        linkState |-> [speed |-> speed,
                       connect |-> IF controlStatus.LinkUp
                                   THEN "MediaConnectStateConnected"
                                   ELSE "MediaConnectStateDisconnected",
                       duplex |-> IF controlStatus.FullDuplex
                                  THEN "MediaDuplexStateFull"
                                  ELSE "MediaDuplexStateHalf"]]

(***************************************************************************)
(* The interrupt mask manager.                                             *)
(***************************************************************************)
MakeMacInterruptEnable(interruptsWanted) ==
    [LinkStatus |-> BitAnd8(interruptsWanted, InterruptsState) # 0]

\* MakeChannelInterruptEnable with Tx taken from the Rx bit of the mask.
MakeChannelInterruptEnable_TxFromRx(interruptsWanted) ==
    [Rx |-> BitAnd8(interruptsWanted, InterruptsRx) # 0,
     Tx |-> BitAnd8(interruptsWanted, InterruptsRx) # 0,
     NormalInterruptSummary |-> TRUE,
     FatalBusError |-> BitAnd8(interruptsWanted, InterruptsState) # 0,
     AbnormalInterruptSummary |-> BitAnd8(interruptsWanted, InterruptsState) # 0]

MakeChannelInterruptEnable(interruptsWanted) ==
    [Rx |-> BitAnd8(interruptsWanted, InterruptsRx) # 0,
     Tx |-> BitAnd8(interruptsWanted, InterruptsTx) # 0,
     NormalInterruptSummary |-> TRUE,
     FatalBusError |-> BitAnd8(interruptsWanted, InterruptsState) # 0,
     AbnormalInterruptSummary |-> BitAnd8(interruptsWanted, InterruptsState) # 0]

\* DeviceInterruptEnable_Locked without the test of oldWanted != newWanted:
\* the two registers are written on every call.
DeviceInterruptEnable_Locked_AlwaysWrite(ctx, h, bitsToEnable) ==
    LET oldWanted == ctx.interruptsWanted
        newWanted == BitOr8(oldWanted, bitsToEnable)
    IN [context |-> [ctx EXCEPT !.interruptsWanted = newWanted],
        hw |-> [h EXCEPT !.MacInterruptEnable = MakeMacInterruptEnable(newWanted),
                         !.DmaCh0InterruptEnable = MakeChannelInterruptEnable(newWanted)],
        writes |-> <<"MacInterruptEnable", "DmaCh0InterruptEnable">>]

DeviceInterruptEnable_Locked(ctx, h, bitsToEnable) ==
    LET oldWanted == ctx.interruptsWanted
        newWanted == BitOr8(oldWanted, bitsToEnable)
    IN IF oldWanted # newWanted
       THEN [context |-> [ctx EXCEPT !.interruptsWanted = newWanted],
             hw |-> [h EXCEPT !.MacInterruptEnable = MakeMacInterruptEnable(newWanted),
                              !.DmaCh0InterruptEnable = MakeChannelInterruptEnable(newWanted)],
             writes |-> <<"MacInterruptEnable", "DmaCh0InterruptEnable">>]
       ELSE [context |-> ctx, hw |-> h, writes |-> <<>>]

\* DeviceInterruptDisable_Locked computing old & bits instead of old & ~bits.
DeviceInterruptDisable_Locked_NoComplement(ctx, h, bitsToDisable) ==
    LET oldWanted == ctx.interruptsWanted
        newWanted == BitAnd8(oldWanted, bitsToDisable)
    IN IF oldWanted # newWanted
       THEN [context |-> [ctx EXCEPT !.interruptsWanted = newWanted],
             hw |-> [h EXCEPT !.MacInterruptEnable = MakeMacInterruptEnable(newWanted),
                              !.DmaCh0InterruptEnable = MakeChannelInterruptEnable(newWanted)],
             writes |-> <<"MacInterruptEnable", "DmaCh0InterruptEnable">>]
       ELSE [context |-> ctx, hw |-> h, writes |-> <<>>]

DeviceInterruptDisable_Locked(ctx, h, bitsToDisable) ==
    LET oldWanted == ctx.interruptsWanted
        newWanted == BitAnd8(oldWanted, BitNot8(bitsToDisable))
    IN IF oldWanted # newWanted
       THEN [context |-> [ctx EXCEPT !.interruptsWanted = newWanted],
             hw |-> [h EXCEPT !.MacInterruptEnable = MakeMacInterruptEnable(newWanted),
                              !.DmaCh0InterruptEnable = MakeChannelInterruptEnable(newWanted)],
             writes |-> <<"MacInterruptEnable", "DmaCh0InterruptEnable">>]
       ELSE [context |-> ctx, hw |-> h, writes |-> <<>>]

\* The interrupt classes named by a mask.
ClassesOf(mask) ==
    {c \in {"State", "Rx", "Tx"} :
        BitSet(mask, CASE c = "State" -> 0 [] c = "Rx" -> 1 [] c = "Tx" -> 2)}

\* A call of DeviceInterruptEnable_Locked or DeviceInterruptDisable_Locked.
MaskCall(op, ctx, h, bits) ==
    IF op = "enable" THEN DeviceInterruptEnable_Locked(ctx, h, bits)
                     ELSE DeviceInterruptDisable_Locked(ctx, h, bits)

\* The record of such a call: what it was asked, what it found, what it wrote.
CallRecord(op, ctx, h, bits) ==
    [op |-> op, bits |-> bits, old |-> ctx.interruptsWanted,
     oldMac |-> h.MacInterruptEnable, oldCh |-> h.DmaCh0InterruptEnable,
     writes |-> MaskCall(op, ctx, h, bits).writes]

NoCall ==
    [op |-> "none", bits |-> 0, old |-> 0,
     oldMac |-> [LinkStatus |-> FALSE], oldCh |-> ChannelInterruptEnableZero,
     writes |-> <<>>]

FoldCall(op, bits) ==
    IF op = "enable" THEN folded \cup ClassesOf(bits) ELSE folded \ ClassesOf(bits)

(***************************************************************************)
(* State after DeviceAdd: a zeroed DeviceContext, the lock created, the    *)
(* adapter created, nothing mapped.                                        *)
(***************************************************************************)
FactoryMac == <<0, 17, 34, 51, 68, 85>>

Feature0Zero == [Gmii |-> FALSE, MacAddrCount |-> 0]
Feature1Zero == [AddressWidth |-> 0, TxFifoSize |-> 0, RxFifoSize |-> 0]

PhyDown == [LinkUp |-> FALSE, FullDuplex |-> FALSE, Speed |-> PhyIfSpeed_2_5M]

Directions == {"rx", "tx"}
StatusBits == ChannelStatusBits \cup {LinkStatusBit}

\* DevicePrepareHardware's locals while no call is in progress.
PrepIdle ==
    [status |-> NULL, configHasMacAddress |-> FALSE, maxPhysicalAddress |-> 0,
     trace |-> <<>>, version |-> [RkVer |-> 0, UserVer |-> 0],
     resetPolls |-> 0, polls |-> 0,
     resources |-> <<>>, mapped |-> <<>>, bound |-> <<>>,
     configAddress |-> [status |-> NULL, Length |-> 0, Address |-> ZeroMac]]

LinkStateUnset == [speed |-> 0, connect |-> "unset", duplex |-> "unset"]

DeviceAdded(mac0) ==
    /\ context = [regs |-> NULL, interrupt |-> NULL, dma |-> NULL,
                  feature0 |-> Feature0Zero, feature1 |-> Feature1Zero,
                  permanentMacAddress |-> ZeroMac, currentMacAddress |-> ZeroMac,
                  interruptStatus |-> {},
                  interruptsWanted |-> InterruptsNone,
                  rxQueue |-> NULL, txQueue |-> NULL]
    /\ hw = [MacInterruptEnable |-> [LinkStatus |-> FALSE],
             DmaCh0InterruptEnable |-> ChannelInterruptEnableZero,
             MacInterruptStatus |-> [LinkStatus |-> FALSE],
             DmaCh0Status |-> {},
             MacPhyIfControlStatus |-> PhyDown,
             MacConfiguration |-> MacConfigurationZero,
             MacAddress0 |-> [addr |-> mac0, enable |-> TRUE],
             MtlTxQueueSize |-> 0, MtlRxQueueSize |-> 0,
             DmaSysBusModeSet |-> FALSE, resetStuck |-> FALSE]
    /\ lock = "free"
    /\ devState = "Unattached"
    /\ pnpPc = "idle"
    /\ setPc = [d \in Directions |-> "idle"]
    /\ setArg = [d \in Directions |-> NULL]
    /\ dpcQueued = FALSE
    /\ dpcPc = "idle"
    /\ dpcStatus = {}
    /\ adapter = [started |-> FALSE, linkState |-> LinkStateUnset,
                  currentAddress |-> ZeroMac, permanentAddress |-> ZeroMac,
                  maxPhysicalAddress |-> 0, interruptObject |-> FALSE]
    /\ prep = PrepIdle
    /\ notified = [d \in Directions |-> 0]
    /\ undrained = [b \in StatusBits |-> 0]
    /\ folded = {}
    /\ lastCall = NoCall
    /\ counted = {}

\* A device whose MacAddress[0] register holds a factory-programmed address.
Init == DeviceAdded(FactoryMac)

\* The values MacAddress[0] can hold when the driver first reads it: a
\* programmed address, the register's reset value, nothing, and addresses
\* with the multicast bit set.
PermanentMacs ==
    {FactoryMac, OnesMac, ZeroMac, <<1, 17, 34, 51, 68, 85>>, <<1, 0, 0, 0, 0, 0>>}

AttachInit == \E mac0 \in PermanentMacs : DeviceAdded(mac0)

(***************************************************************************)
(* The hardware raising events.  A status bit is set whether or not its    *)
(* interrupt is enabled; the enable registers only gate the line.          *)
(***************************************************************************)
HwChannelEvents ==
    {{"Rx"}, {"Tx"}, {"FatalBusError", "AbnormalInterruptSummary"}}

PhyInputs ==
    {PhyDown,
     [LinkUp |-> TRUE, FullDuplex |-> TRUE, Speed |-> PhyIfSpeed_125M]}

HwChannelEvent ==
    /\ devState = "Active"
    /\ \E ev \in HwChannelEvents :
          /\ ~(ev \subseteq hw.DmaCh0Status)
          /\ hw' = [hw EXCEPT !.DmaCh0Status = @ \cup ev]
    /\ lastCall' = NoCall
    /\ counted' = {}
    /\ UNCHANGED <<context, lock, devState, pnpPc, setPc, setArg, dpcQueued, dpcPc,
                   dpcStatus, adapter, prep, notified, undrained, folded>>

\* The device raising the receive and transmit bits together, or a fault.
BurstEvents ==
    {{"Rx", "Tx"}, {"FatalBusError", "AbnormalInterruptSummary"}}

HwChannelBurst ==
    /\ devState = "Active"
    /\ \E ev \in BurstEvents :
          /\ ~(ev \subseteq hw.DmaCh0Status)
          /\ hw' = [hw EXCEPT !.DmaCh0Status = @ \cup ev]
    /\ lastCall' = NoCall
    /\ counted' = {}
    /\ UNCHANGED <<context, lock, devState, pnpPc, setPc, setArg, dpcQueued, dpcPc,
                   dpcStatus, adapter, prep, notified, undrained, folded>>

HwLinkEvent ==
    /\ devState = "Active"
    /\ \E phy \in PhyInputs :
          /\ phy # hw.MacPhyIfControlStatus
          /\ hw' = [hw EXCEPT !.MacPhyIfControlStatus = phy,
                              !.MacInterruptStatus = [LinkStatus |-> TRUE]]
    /\ lastCall' = NoCall
    /\ counted' = {}
    /\ UNCHANGED <<context, lock, devState, pnpPc, setPc, setArg, dpcQueued, dpcPc,
                   dpcStatus, adapter, prep, notified, undrained, folded>>

\* Every value of the LinkUp, FullDuplex and two-bit Speed fields of
\* MacPhyIfControlStatus.
LinkPhyInputs == [LinkUp : BOOLEAN, FullDuplex : BOOLEAN, Speed : 0..3]

\* The PHY reporting any link change, whether the device is in D0 or not.
HwLinkChange ==
    /\ devState \in {"PoweredOff", "Active"}
    /\ \E phy \in LinkPhyInputs :
          /\ phy # hw.MacPhyIfControlStatus
          /\ hw' = [hw EXCEPT !.MacPhyIfControlStatus = phy,
                              !.MacInterruptStatus = [LinkStatus |-> TRUE]]
    /\ lastCall' = NoCall
    /\ counted' = {}
    /\ UNCHANGED <<context, lock, devState, pnpPc, setPc, setArg, dpcQueued, dpcPc,
                   dpcStatus, adapter, prep, notified, undrained, folded>>

\* The interrupt line as the device drives it.
LineAsserted ==
    \/ hw.MacInterruptStatus.LinkStatus /\ hw.MacInterruptEnable.LinkStatus
    \/ /\ hw.DmaCh0InterruptEnable.NormalInterruptSummary
       /\ \/ "Rx" \in hw.DmaCh0Status /\ hw.DmaCh0InterruptEnable.Rx
          \/ "Tx" \in hw.DmaCh0Status /\ hw.DmaCh0InterruptEnable.Tx
    \/ "FatalBusError" \in hw.DmaCh0Status /\ hw.DmaCh0InterruptEnable.FatalBusError
    \/ /\ "AbnormalInterruptSummary" \in hw.DmaCh0Status
       /\ hw.DmaCh0InterruptEnable.AbnormalInterruptSummary

(***************************************************************************)
(* DeviceInterruptIsr.  The line is shared, so the handler can be called   *)
(* whenever the interrupt is connected, that is between the return of      *)
(* DeviceD0Entry and the call of DeviceD0Exit.                             *)
(***************************************************************************)
\* A plain store in place of the atomic OR.
InterlockedOrNoFence_Store(target, bits) == bits

InterlockedOrNoFence(target, bits) == target \cup bits

\* In D0 and with the spin lock free.
InD0_LockFree == devState = "Active" /\ pnpPc = "idle" /\ lock = "free"

\* Between the return of DeviceD0Entry and the call of DeviceD0Exit: the
\* interrupt is connected and the packet queues exist.
InD0 == devState = "Active" /\ pnpPc = "idle"

\* The ISR testing the channel status alone.
DeviceInterruptIsr_ChannelOnly ==
    /\ InD0
    /\ LET mac == hw.MacInterruptStatus
           channel0 == hw.DmaCh0Status
           bits == channel0 \cup (IF mac.LinkStatus THEN {LinkStatusBit} ELSE {})
       IN IF channel0 # {}
          THEN /\ hw' = [hw EXCEPT
                            !.MacInterruptStatus =
                                IF mac.LinkStatus THEN [LinkStatus |-> FALSE] ELSE @,
                            !.DmaCh0Status = @ \ channel0]
               /\ context' = [context EXCEPT
                                 !.interruptStatus = InterlockedOrNoFence(@, bits)]
               /\ counted' = {"isrHandled"}
               /\ dpcQueued' = TRUE
               /\ undrained' = [b \in StatusBits |->
                                  IF b \in bits /\ b \notin context.interruptStatus
                                  THEN undrained[b] + 1 ELSE undrained[b]]
          ELSE /\ counted' = {"isrIgnored"}
               /\ UNCHANGED <<context, hw, dpcQueued, undrained>>
    /\ lastCall' = NoCall
    /\ UNCHANGED <<lock, devState, pnpPc, setPc, setArg, dpcPc, dpcStatus, adapter,
                   prep, notified, folded>>

DeviceInterruptIsr ==
    /\ InD0
    /\ LET mac == hw.MacInterruptStatus
           channel0 == hw.DmaCh0Status
           bits == channel0 \cup (IF mac.LinkStatus THEN {LinkStatusBit} ELSE {})
       IN IF mac.LinkStatus \/ channel0 # {}
          THEN /\ hw' = [hw EXCEPT
                            !.MacInterruptStatus =
                                IF mac.LinkStatus THEN [LinkStatus |-> FALSE] ELSE @,
                            !.DmaCh0Status = @ \ channel0]
               /\ context' = [context EXCEPT
                                 !.interruptStatus = InterlockedOrNoFence(@, bits)]
               /\ counted' = {"isrHandled"}
               /\ dpcQueued' = TRUE
               /\ undrained' = [b \in StatusBits |->
                                  IF b \in bits /\ b \notin context.interruptStatus
                                  THEN undrained[b] + 1 ELSE undrained[b]]
          ELSE /\ counted' = {"isrIgnored"}
               /\ UNCHANGED <<context, hw, dpcQueued, undrained>>
    /\ lastCall' = NoCall
    /\ UNCHANGED <<lock, devState, pnpPc, setPc, setArg, dpcPc, dpcStatus, adapter,
                   prep, notified, folded>>

(***************************************************************************)
(* DeviceInterruptDpc                                                      *)
(***************************************************************************)
\* InterlockedExchangeNoFence(&target, value): the prior value and the new one.
InterlockedExchangeNoFence(target, value) == [prior |-> target, now |-> value]

\* Both directions as soon as the status holds one of them.
interruptsRxTx_Both(status) ==
    IF status \cap {"Rx", "Tx"} = {} THEN InterruptsNone
    ELSE BitOr8(InterruptsRx, InterruptsTx)

interruptsRxTx(status) ==
    BitOr8(IF "Rx" \in status THEN InterruptsRx ELSE InterruptsNone,
           IF "Tx" \in status THEN InterruptsTx ELSE InterruptsNone)

\* The DPC leaving its loop as soon as a pass finds no Rx or Tx bit.
DpcExchange_BreakOnNoRxTx ==
    /\ \/ dpcPc = "idle" /\ dpcQueued
       \/ dpcPc = "loop"
    /\ dpcQueued' = IF dpcPc = "idle" THEN FALSE ELSE dpcQueued
    /\ LET x == InterlockedExchangeNoFence(context.interruptStatus, {})
           status == x.prior
           ais == "AbnormalInterruptSummary" \in status
           fbe == "FatalBusError" \in status
           link == LinkStatusBit \in status
           u == UpdateLinkState(hw)
       IN /\ context' = [context EXCEPT !.interruptStatus = x.now]
          /\ counted' = (IF ais THEN {"dpcAbnormalStatus"} ELSE {})
                            \cup (IF fbe THEN {"dpcFatalBusError"} ELSE {})
                            \cup (IF link THEN {"dpcLinkState"} ELSE {})
          /\ undrained' = [b \in StatusBits |->
                             IF b \in status THEN undrained[b] - 1 ELSE undrained[b]]
          /\ hw' = IF link THEN u.hw ELSE hw
          /\ adapter' = IF link THEN [adapter EXCEPT !.linkState = u.linkState]
                                ELSE adapter
          /\ IF interruptsRxTx(status) # 0
             THEN dpcPc' = "acquire" /\ dpcStatus' = status \cap {"Rx", "Tx"}
             ELSE dpcPc' = "idle" /\ dpcStatus' = {}
    /\ lastCall' = NoCall
    /\ UNCHANGED <<lock, devState, pnpPc, setPc, setArg, prep, notified, folded>>

\* One pass from the top of the for (;;) loop to the test of interruptsRxTx:
\* the exchange, the break, the fault counters and the link update.  The
\* first pass of a run also takes the DPC off the queue.
\* After the test only status.Rx and status.Tx are read, so dpcStatus keeps
\* those two fields of 'status'.
DpcExchange ==
    /\ \/ dpcPc = "idle" /\ dpcQueued
       \/ dpcPc = "loop"
    /\ dpcQueued' = IF dpcPc = "idle" THEN FALSE ELSE dpcQueued
    /\ LET x == InterlockedExchangeNoFence(context.interruptStatus, {})
           status == x.prior
           ais == "AbnormalInterruptSummary" \in status
           fbe == "FatalBusError" \in status
           link == LinkStatusBit \in status
           u == UpdateLinkState(hw)
       IN /\ context' = [context EXCEPT !.interruptStatus = x.now]
          /\ counted' = (IF ais THEN {"dpcAbnormalStatus"} ELSE {})
                            \cup (IF fbe THEN {"dpcFatalBusError"} ELSE {})
                            \cup (IF link THEN {"dpcLinkState"} ELSE {})
          /\ undrained' = [b \in StatusBits |->
                             IF b \in status THEN undrained[b] - 1 ELSE undrained[b]]
          /\ hw' = IF link THEN u.hw ELSE hw
          /\ adapter' = IF link THEN [adapter EXCEPT !.linkState = u.linkState]
                                ELSE adapter
          /\ IF status = {}
             THEN dpcPc' = "idle" /\ dpcStatus' = {}
             ELSE IF interruptsRxTx(status) # 0
             THEN dpcPc' = "acquire" /\ dpcStatus' = status \cap {"Rx", "Tx"}
             ELSE dpcPc' = "loop" /\ dpcStatus' = {}
    /\ lastCall' = NoCall
    /\ UNCHANGED <<lock, devState, pnpPc, setPc, setArg, prep, notified, folded>>

\* DeviceInterruptDisable_Locked called without WdfSpinLockAcquire.
DpcDisable_NoLock ==
    /\ dpcPc = "acquire"
    /\ lock' = lock
    /\ LET bits == interruptsRxTx(dpcStatus)
           r == MaskCall("disable", context, hw, bits)
       IN /\ context' = r.context
          /\ hw' = r.hw
          /\ lastCall' = CallRecord("disable", context, hw, bits)
          /\ folded' = FoldCall("disable", bits)
    /\ dpcPc' = "rx"
    /\ counted' = {}
    /\ UNCHANGED <<devState, pnpPc, setPc, setArg, dpcQueued, dpcStatus, adapter,
                   prep, notified, undrained>>

\* WdfSpinLockAcquire and DeviceInterruptDisable_Locked(context, interruptsRxTx).
DpcDisable ==
    /\ dpcPc = "acquire"
    /\ lock = "free"
    /\ lock' = "dpc"
    /\ LET bits == interruptsRxTx(dpcStatus)
           r == MaskCall("disable", context, hw, bits)
       IN /\ context' = r.context
          /\ hw' = r.hw
          /\ lastCall' = CallRecord("disable", context, hw, bits)
          /\ folded' = FoldCall("disable", bits)
    /\ dpcPc' = "rx"
    /\ counted' = {}
    /\ UNCHANGED <<devState, pnpPc, setPc, setArg, dpcQueued, dpcStatus, adapter,
                   prep, notified, undrained>>

\* The DPC taking the receive branch for no handle at all.
DpcNotifyRx_Never ==
    /\ dpcPc = "rx"
    /\ dpcPc' = "tx"
    /\ lastCall' = NoCall
    /\ counted' = {}
    /\ UNCHANGED <<context, hw, lock, devState, pnpPc, setPc, setArg, dpcQueued, dpcStatus,
                   adapter, prep, notified, undrained, folded>>

\* if (status.Rx && context->rxQueue): count and call the queue's callback.
DpcNotifyRx ==
    /\ dpcPc = "rx"
    /\ IF "Rx" \in dpcStatus /\ context.rxQueue # NULL
       THEN /\ counted' = {"dpcRx"}
            /\ notified' = [notified EXCEPT !["rx"] = @ + 1]
            /\ dpcPc' = "rxclear"
       ELSE /\ dpcPc' = "tx"
            /\ counted' = {}
            /\ UNCHANGED notified
    /\ lastCall' = NoCall
    /\ UNCHANGED <<context, hw, lock, devState, pnpPc, setPc, setArg, dpcQueued, dpcStatus,
                   adapter, prep, undrained, folded>>

\* The receive notification without context->rxQueue = nullptr.
DpcClearRx_KeepHandle ==
    /\ dpcPc = "rxclear"
    /\ dpcPc' = "tx"
    /\ lastCall' = NoCall
    /\ counted' = {}
    /\ UNCHANGED <<context, hw, lock, devState, pnpPc, setPc, setArg, dpcQueued,
                   dpcStatus, adapter, prep, notified, undrained, folded>>

\* context->rxQueue = nullptr;
DpcClearRx ==
    /\ dpcPc = "rxclear"
    /\ context' = [context EXCEPT !.rxQueue = NULL]
    /\ dpcPc' = "tx"
    /\ lastCall' = NoCall
    /\ counted' = {}
    /\ UNCHANGED <<hw, lock, devState, pnpPc, setPc, setArg, dpcQueued, dpcStatus,
                   adapter, prep, notified, undrained, folded>>

\* if (status.Tx && context->txQueue): count and call the queue's callback.
DpcNotifyTx ==
    /\ dpcPc = "tx"
    /\ IF "Tx" \in dpcStatus /\ context.txQueue # NULL
       THEN /\ counted' = {"dpcTx"}
            /\ notified' = [notified EXCEPT !["tx"] = @ + 1]
            /\ dpcPc' = "txclear"
       ELSE /\ dpcPc' = "release"
            /\ counted' = {}
            /\ UNCHANGED notified
    /\ lastCall' = NoCall
    /\ UNCHANGED <<context, hw, lock, devState, pnpPc, setPc, setArg, dpcQueued, dpcStatus,
                   adapter, prep, undrained, folded>>

\* The transmit notification without context->txQueue = nullptr.
DpcClearTx_KeepHandle ==
    /\ dpcPc = "txclear"
    /\ dpcPc' = "release"
    /\ lastCall' = NoCall
    /\ counted' = {}
    /\ UNCHANGED <<context, hw, lock, devState, pnpPc, setPc, setArg, dpcQueued,
                   dpcStatus, adapter, prep, notified, undrained, folded>>

\* context->txQueue = nullptr;
DpcClearTx ==
    /\ dpcPc = "txclear"
    /\ context' = [context EXCEPT !.txQueue = NULL]
    /\ dpcPc' = "release"
    /\ lastCall' = NoCall
    /\ counted' = {}
    /\ UNCHANGED <<hw, lock, devState, pnpPc, setPc, setArg, dpcQueued, dpcStatus,
                   adapter, prep, notified, undrained, folded>>

\* The DPC turning the receive interrupt back on before it releases the lock.
DpcRelease_Reenable ==
    /\ dpcPc = "release"
    /\ LET r == MaskCall("enable", context, hw, InterruptsRx)
       IN /\ context' = r.context
          /\ hw' = r.hw
          /\ lastCall' = CallRecord("enable", context, hw, InterruptsRx)
          /\ folded' = FoldCall("enable", InterruptsRx)
    /\ lock' = "free"
    /\ dpcPc' = "loop"
    /\ dpcStatus' = {}
    /\ counted' = {}
    /\ UNCHANGED <<devState, pnpPc, setPc, setArg, dpcQueued, adapter, prep,
                   notified, undrained>>

\* WdfSpinLockRelease and back to the top of the loop, where 'status' is dead.
DpcRelease ==
    /\ dpcPc = "release"
    /\ lock' = "free"
    /\ dpcPc' = "loop"
    /\ dpcStatus' = {}
    /\ lastCall' = NoCall
    /\ counted' = {}
    /\ UNCHANGED <<context, hw, devState, pnpPc, setPc, setArg, dpcQueued, adapter,
                   prep, notified, undrained, folded>>

DeviceInterruptDpc ==
    \/ DpcExchange \/ DpcDisable \/ DpcNotifyRx \/ DpcClearRx
    \/ DpcNotifyTx \/ DpcClearTx \/ DpcRelease

(***************************************************************************)
(* DeviceSetNotificationRxQueue / DeviceSetNotificationTxQueue.  The       *)
(* packet queues that call them exist only between DeviceD0Entry and       *)
(* DeviceD0Exit (see the lifecycle comment at the top of device.cpp).      *)
(***************************************************************************)
QueueOf(d) == IF d = "rx" THEN "RXQ" ELSE "TXQ"
InterruptsOf(d) == IF d = "rx" THEN InterruptsRx ELSE InterruptsTx
Slot(ctx, d) == IF d = "rx" THEN ctx.rxQueue ELSE ctx.txQueue

\* context->rxQueue = rxQueue stored without waiting for the lock.
SetNotificationStore_NoWait(d, queue) ==
    /\ InD0
    /\ setPc[d] = "idle"
    /\ lock' = d
    /\ setArg' = [setArg EXCEPT ![d] = queue]
    /\ context' = IF d = "rx" THEN [context EXCEPT !.rxQueue = queue]
                              ELSE [context EXCEPT !.txQueue = queue]
    /\ notified' = IF queue # NULL THEN [notified EXCEPT ![d] = 0] ELSE notified
    /\ setPc' = [setPc EXCEPT ![d] = "mask"]
    /\ lastCall' = NoCall
    /\ counted' = {}
    /\ UNCHANGED <<hw, devState, pnpPc, dpcQueued, dpcPc, dpcStatus, adapter, prep,
                   undrained, folded>>

\* WdfSpinLockAcquire(context->lock); context->rxQueue = rxQueue;
SetNotificationStore(d, queue) ==
    /\ InD0
    /\ setPc[d] = "idle"
    /\ lock = "free"
    /\ lock' = d
    /\ setArg' = [setArg EXCEPT ![d] = queue]
    /\ context' = IF d = "rx" THEN [context EXCEPT !.rxQueue = queue]
                              ELSE [context EXCEPT !.txQueue = queue]
    /\ notified' = IF queue # NULL THEN [notified EXCEPT ![d] = 0] ELSE notified
    /\ setPc' = [setPc EXCEPT ![d] = "mask"]
    /\ lastCall' = NoCall
    /\ counted' = {}
    /\ UNCHANGED <<hw, devState, pnpPc, dpcQueued, dpcPc, dpcStatus, adapter, prep,
                   undrained, folded>>

\* DeviceSetNotification*Queue without the else branch: a null queue leaves
\* the mask alone.
SetNotificationMask_NoDisable(d) ==
    /\ setPc[d] = "mask"
    /\ LET op == "enable"
           bits == IF setArg[d] # NULL THEN InterruptsOf(d) ELSE InterruptsNone
           r == MaskCall(op, context, hw, bits)
       IN /\ context' = r.context
          /\ hw' = r.hw
          /\ lastCall' = CallRecord(op, context, hw, bits)
          /\ folded' = FoldCall(op, bits)
    /\ lock' = "free"
    /\ setPc' = [setPc EXCEPT ![d] = "idle"]
    /\ setArg' = [setArg EXCEPT ![d] = NULL]
    /\ counted' = {}
    /\ UNCHANGED <<devState, pnpPc, dpcQueued, dpcPc, dpcStatus, adapter, prep,
                   notified, undrained>>

\* if (rxQueue) Enable_Locked(InterruptsRx) else Disable_Locked(InterruptsRx);
\* WdfSpinLockRelease(context->lock);
SetNotificationMask(d) ==
    /\ setPc[d] = "mask"
    /\ LET op == IF setArg[d] # NULL THEN "enable" ELSE "disable"
           r == MaskCall(op, context, hw, InterruptsOf(d))
       IN /\ context' = r.context
          /\ hw' = r.hw
          /\ lastCall' = CallRecord(op, context, hw, InterruptsOf(d))
          /\ folded' = FoldCall(op, InterruptsOf(d))
    /\ lock' = "free"
    /\ setPc' = [setPc EXCEPT ![d] = "idle"]
    /\ setArg' = [setArg EXCEPT ![d] = NULL]
    /\ counted' = {}
    /\ UNCHANGED <<devState, pnpPc, dpcQueued, dpcPc, dpcStatus, adapter, prep,
                   notified, undrained>>

DeviceSetNotificationRxQueue ==
    \/ \E queue \in {NULL, QueueOf("rx")} : SetNotificationStore("rx", queue)
    \/ SetNotificationMask("rx")

DeviceSetNotificationTxQueue ==
    \/ \E queue \in {NULL, QueueOf("tx")} : SetNotificationStore("tx", queue)
    \/ SetNotificationMask("tx")

(***************************************************************************)
(* DeviceD0Entry                                                           *)
(***************************************************************************)
\* (128u << fifoSize) / 256u - 1, for the FIFO sizes of 256 bytes and more
\* (fifoSize >= 1) that the feature register encodes.
FifoQueueSize(fifoSize) == (128 * Pow2(fifoSize)) \div 256 - 1

\* DeviceD0Entry with a link refresh that publishes nothing.
D0EntryProgram_NoReport ==
    /\ devState = "PoweredOff"
    /\ pnpPc = "idle"
    /\ LET programmed ==
               [hw EXCEPT
                  !.MtlTxQueueSize = FifoQueueSize(context.feature1.TxFifoSize),
                  !.MtlRxQueueSize = FifoQueueSize(context.feature1.RxFifoSize),
                  !.MacConfiguration =
                      [MacConfigurationZero EXCEPT
                          !.DisableCarrierSenseDuringTransmit = TRUE,
                          !.PacketBurstEnable = TRUE,
                          !.ReceiverEnable = TRUE,
                          !.TransmitterEnable = TRUE]]
           u == UpdateLinkState(programmed)
       IN /\ hw' = u.hw
          /\ adapter' = adapter
    /\ pnpPc' = "d0entry_enable"
    /\ lastCall' = NoCall
    /\ counted' = {}
    /\ UNCHANGED <<context, lock, devState, setPc, setArg, dpcQueued, dpcPc,
                   dpcStatus, prep, notified, undrained, folded>>

\* Everything up to and including (void)Read32(&DmaCh[0].Status).  The channel
\* status is cleared by writing it, so that read leaves DmaCh0Status alone.
D0EntryProgram ==
    /\ devState = "PoweredOff"
    /\ pnpPc = "idle"
    /\ LET programmed ==
               [hw EXCEPT
                  !.MtlTxQueueSize = FifoQueueSize(context.feature1.TxFifoSize),
                  !.MtlRxQueueSize = FifoQueueSize(context.feature1.RxFifoSize),
                  !.MacConfiguration =
                      [MacConfigurationZero EXCEPT
                          !.DisableCarrierSenseDuringTransmit = TRUE,
                          !.PacketBurstEnable = TRUE,
                          !.ReceiverEnable = TRUE,
                          !.TransmitterEnable = TRUE]]
           u == UpdateLinkState(programmed)
       IN /\ hw' = u.hw
          /\ adapter' = [adapter EXCEPT !.linkState = u.linkState]
    /\ pnpPc' = "d0entry_enable"
    /\ lastCall' = NoCall
    /\ counted' = {}
    /\ UNCHANGED <<context, lock, devState, setPc, setArg, dpcQueued, dpcPc,
                   dpcStatus, prep, notified, undrained, folded>>

\* DeviceD0Entry enabling every interrupt class.
D0EntryEnable_All ==
    /\ pnpPc = "d0entry_enable"
    /\ lock = "free"
    /\ LET r == MaskCall("enable", context, hw, InterruptsAll)
       IN /\ context' = r.context
          /\ hw' = r.hw
          /\ lastCall' = CallRecord("enable", context, hw, InterruptsAll)
          /\ folded' = FoldCall("enable", InterruptsAll)
    /\ pnpPc' = "idle"
    /\ devState' = "Active"
    /\ counted' = {}
    /\ UNCHANGED <<lock, setPc, setArg, dpcQueued, dpcPc, dpcStatus, adapter, prep,
                   notified, undrained>>

\* DeviceInterruptEnable(context, InterruptsState) and the return; the
\* framework then connects the interrupt.
D0EntryEnable ==
    /\ pnpPc = "d0entry_enable"
    /\ lock = "free"
    /\ LET r == MaskCall("enable", context, hw, InterruptsState)
       IN /\ context' = r.context
          /\ hw' = r.hw
          /\ lastCall' = CallRecord("enable", context, hw, InterruptsState)
          /\ folded' = FoldCall("enable", InterruptsState)
    /\ pnpPc' = "idle"
    /\ devState' = "Active"
    /\ counted' = {}
    /\ UNCHANGED <<lock, setPc, setArg, dpcQueued, dpcPc, dpcStatus, adapter, prep,
                   notified, undrained>>

DeviceD0Entry == D0EntryProgram \/ D0EntryEnable

(***************************************************************************)
(* DeviceD0Exit.  It is called after the packet queues are destroyed; the  *)
(* two NT_ASSERTs state what the caller guarantees.                        *)
(***************************************************************************)
\* DeviceInterruptDisable(context, InterruptsAll) and the two assertions.
D0ExitDisable ==
    /\ devState = "Active"
    /\ pnpPc = "idle"
    /\ setPc = [d \in Directions |-> "idle"]
    /\ context.txQueue = NULL
    /\ context.rxQueue = NULL
    /\ lock = "free"
    /\ LET r == MaskCall("disable", context, hw, InterruptsAll)
       IN /\ context' = r.context
          /\ hw' = r.hw
          /\ lastCall' = CallRecord("disable", context, hw, InterruptsAll)
          /\ folded' = FoldCall("disable", InterruptsAll)
    /\ pnpPc' = "d0exit_mac"
    /\ counted' = {}
    /\ UNCHANGED <<lock, devState, setPc, setArg, dpcQueued, dpcPc, dpcStatus,
                   adapter, prep, notified, undrained>>

\* DeviceD0Exit writing a zeroed MacConfiguration instead of the value read.
D0ExitMac_Zeroed ==
    /\ pnpPc = "d0exit_mac"
    /\ hw' = [hw EXCEPT !.MacConfiguration = MacConfigurationZero]
    /\ pnpPc' = "idle"
    /\ devState' = "PoweredOff"
    /\ lastCall' = NoCall
    /\ counted' = {}
    /\ UNCHANGED <<context, lock, setPc, setArg, dpcQueued, dpcPc, dpcStatus, adapter,
                   prep, notified, undrained, folded>>

\* The read-modify-write of MacConfiguration and the return.
D0ExitMac ==
    /\ pnpPc = "d0exit_mac"
    /\ hw' = [hw EXCEPT !.MacConfiguration =
                 [@ EXCEPT !.ReceiverEnable = FALSE, !.TransmitterEnable = FALSE]]
    /\ pnpPc' = "idle"
    /\ devState' = "PoweredOff"
    /\ lastCall' = NoCall
    /\ counted' = {}
    /\ UNCHANGED <<context, lock, setPc, setArg, dpcQueued, dpcPc, dpcStatus, adapter,
                   prep, notified, undrained, folded>>

DeviceD0Exit == D0ExitDisable \/ D0ExitMac

(***************************************************************************)
(* DevicePrepareHardware, one action per block of the function.  prep      *)
(* holds its locals (status, configHasMacAddress, maxPhysicalAddress) and  *)
(* the list of blocks entered by the call in progress.                     *)
(***************************************************************************)
AddressWidth_32 == 0
AddressWidth_40 == 1
AddressWidth_48 == 2

NT_SUCCESS(status) == status = "STATUS_SUCCESS"

\* A check that lets every address through.
ETH_IS_MULTICAST_Never(addr) == FALSE

ETH_IS_MULTICAST(addr) == addr[1] % 2 = 1
ETH_IS_BROADCAST(addr) == addr = OnesMac

\* Inputs of DevicePrepareHardware and DeviceReleaseHardware: what the
\* configuration store, the platform, the kernel calls and the device
\* registers return.
ConfiguredMac == <<2, 0, 0, 0, 0, 1>>
MulticastMac == <<1, 0, 94, 0, 0, 1>>
ResourceDescriptors ==
    {[Type |-> "CmResourceTypeMemory", Undersized |-> FALSE],
     [Type |-> "CmResourceTypeMemory", Undersized |-> TRUE],
     [Type |-> "CmResourceTypeInterrupt", Undersized |-> FALSE],
     [Type |-> "CmResourceTypePort", Undersized |-> FALSE]}
ResourceLists ==
    UNION {[1..n -> ResourceDescriptors] : n \in 0..MaxResources}
CallStatuses == {"STATUS_SUCCESS", "STATUS_INSUFFICIENT_RESOURCES"}

\* Every outcome of every step.
AttachInputs ==
    [open |-> CallStatuses,
     configAddress |->
        {[status |-> "STATUS_NOT_FOUND", Length |-> 0, Address |-> ZeroMac],
         [status |-> "STATUS_SUCCESS", Length |-> 6, Address |-> ConfiguredMac],
         [status |-> "STATUS_SUCCESS", Length |-> 6, Address |-> MulticastMac],
         [status |-> "STATUS_SUCCESS", Length |-> 6, Address |-> OnesMac],
         [status |-> "STATUS_SUCCESS", Length |-> 4, Address |-> ConfiguredMac]},
     resources |-> ResourceLists,
     mapOk |-> BOOLEAN,
     interruptCreate |-> CallStatuses,
     random |-> {<<18, 52, 86, 120>>, <<255, 255, 255, 255>>},
     RkVer |-> {80, 81, 82, 83},
     UserVer |-> {81, 82, 83},
     AddressWidth |-> {AddressWidth_32, AddressWidth_40, AddressWidth_48, 3},
     dmaCreate |-> CallStatuses,
     resetPolls |-> ResetPollInputs,
     start |-> CallStatuses]

\* A platform that hands over one register region and one interrupt, and a
\* device that is either supported or of an older revision.
PipelineInputs ==
    [open |-> {"STATUS_SUCCESS"},
     configAddress |->
        {[status |-> "STATUS_NOT_FOUND", Length |-> 0, Address |-> ZeroMac]},
     resources |->
        {<<[Type |-> "CmResourceTypeMemory", Undersized |-> FALSE],
           [Type |-> "CmResourceTypeInterrupt", Undersized |-> FALSE]>>},
     mapOk |-> {TRUE},
     interruptCreate |-> {"STATUS_SUCCESS"},
     random |-> {<<18, 52, 86, 120>>},
     RkVer |-> {80, 81},
     UserVer |-> {82},
     AddressWidth |-> {AddressWidth_48},
     dmaCreate |-> {"STATUS_SUCCESS"},
     resetPolls |-> {0},
     start |-> {"STATUS_SUCCESS"}]

Enter(block) == [prep EXCEPT !.trace = Append(@, block)]

\* Block "Read configuration".
PrepReadConfiguration(I) ==
    /\ devState = "Unattached"
    /\ pnpPc = "idle"
    /\ \E open \in I.open, configAddress \in I.configAddress :
          LET p0 == [PrepIdle EXCEPT
                        !.status = open,
                        !.trace = <<"ReadConfiguration">>,
                        !.configAddress = IF NT_SUCCESS(open) THEN configAddress
                                          ELSE @]
          IN IF ~NT_SUCCESS(open)
             THEN /\ prep' = p0
                  /\ pnpPc' = "prep_done"
                  /\ UNCHANGED context
             ELSE IF ~NT_SUCCESS(configAddress.status)
                     \/ configAddress.Length # 6
                     \/ ETH_IS_MULTICAST(configAddress.Address)
                     \/ ETH_IS_BROADCAST(configAddress.Address)
             THEN /\ prep' = [p0 EXCEPT !.status = configAddress.status]
                  /\ pnpPc' = "prep_resources"
                  /\ UNCHANGED context
             ELSE /\ prep' = [p0 EXCEPT !.status = configAddress.status,
                                        !.configHasMacAddress = TRUE]
                  /\ context' = [context EXCEPT
                                    !.currentMacAddress = configAddress.Address]
                  /\ pnpPc' = "prep_resources"
    /\ lastCall' = NoCall
    /\ counted' = {}
    /\ UNCHANGED <<hw, lock, devState, setPc, setArg, dpcQueued, dpcPc, dpcStatus,
                   adapter, notified, undrained, folded>>

\* The for loop over the resource list, from descriptor i on.  'st' carries
\* context->regs, context->interrupt, interruptsFound and status, and the
\* indices of the descriptors given to MmMapIoSpaceEx and WdfInterruptCreate
\* with success.
RECURSIVE ResourceLoop(_, _, _, _, _)
ResourceLoop(st, list, i, mapOk, createStatus) ==
    IF i > Len(list) THEN st
    ELSE LET desc == list[i]
         IN CASE desc.Type = "CmResourceTypeMemory" ->
                   IF st.regs # NULL
                   THEN ResourceLoop(st, list, i + 1, mapOk, createStatus)
                   ELSE IF desc.Undersized
                   THEN ResourceLoop(st, list, i + 1, mapOk, createStatus)
                   ELSE IF mapOk
                   THEN ResourceLoop([st EXCEPT !.regs = "MAPPED",
                                                !.mapped = Append(@, i)],
                                     list, i + 1, mapOk, createStatus)
                   ELSE [st EXCEPT !.status = "STATUS_INSUFFICIENT_RESOURCES",
                                   !.done = TRUE]
              [] desc.Type = "CmResourceTypeInterrupt" ->
                   IF st.interruptsFound = 0
                   THEN IF NT_SUCCESS(createStatus)
                        THEN ResourceLoop([st EXCEPT !.interruptsFound = @ + 1,
                                                     !.status = createStatus,
                                                     !.interrupt = "INTERRUPT",
                                                     !.bound = Append(@, i),
                                                     !.created = TRUE],
                                          list, i + 1, mapOk, createStatus)
                        ELSE [st EXCEPT !.interruptsFound = @ + 1,
                                        !.status = createStatus,
                                        !.done = TRUE]
                   ELSE ResourceLoop([st EXCEPT !.interruptsFound = @ + 1],
                                     list, i + 1, mapOk, createStatus)
              [] OTHER -> ResourceLoop(st, list, i + 1, mapOk, createStatus)

\* Block "Configure resources" and the two checks that follow it.
PrepConfigureResources(I) ==
    /\ pnpPc = "prep_resources"
    /\ \E list \in I.resources, mapOk \in I.mapOk,
          createStatus \in I.interruptCreate :
          LET st == ResourceLoop([regs |-> context.regs,
                                  interrupt |-> context.interrupt,
                                  interruptsFound |-> 0,
                                  status |-> prep.status,
                                  created |-> FALSE,
                                  mapped |-> <<>>,
                                  bound |-> <<>>,
                                  done |-> FALSE],
                                 list, 1, mapOk, createStatus)
              p1 == [Enter("ConfigureResources") EXCEPT
                        !.status = st.status, !.resources = list,
                        !.mapped = st.mapped, !.bound = st.bound]
          IN /\ context' = [context EXCEPT !.regs = st.regs,
                                           !.interrupt = st.interrupt]
             /\ adapter' = [adapter EXCEPT
                               !.interruptObject = @ \/ st.created]
             /\ IF st.done
                THEN /\ prep' = p1
                     /\ pnpPc' = "prep_done"
                ELSE IF st.regs = NULL \/ st.interrupt = NULL
                THEN /\ prep' = [p1 EXCEPT
                                   !.status = "STATUS_DEVICE_CONFIGURATION_ERROR"]
                     /\ pnpPc' = "prep_done"
                ELSE /\ prep' = p1
                     /\ pnpPc' = "prep_mac"
    /\ lastCall' = NoCall
    /\ counted' = {}
    /\ UNCHANGED <<hw, lock, devState, setPc, setArg, dpcQueued, dpcPc, dpcStatus,
                   notified, undrained, folded>>

\* The block without the multicast-bit fix-up.
PrepSetUpMacAddress_NoFixup(I) ==
    /\ pnpPc = "prep_mac"
    /\ \E random \in I.random :
          LET mac0 == hw.MacAddress0.addr
              current == IF mac0 = OnesMac \/ mac0 = ZeroMac
                         THEN <<242, 0>> \o random
                         ELSE mac0
          IN context' = [context EXCEPT
                            !.permanentMacAddress = mac0,
                            !.currentMacAddress =
                                IF prep.configHasMacAddress THEN @ ELSE current]
    /\ prep' = [Enter("SetUpMacAddress") EXCEPT
                   !.resources = <<>>, !.mapped = <<>>, !.bound = <<>>]
    /\ pnpPc' = "prep_features"
    /\ lastCall' = NoCall
    /\ counted' = {}
    /\ UNCHANGED <<hw, lock, devState, setPc, setArg, dpcQueued, dpcPc, dpcStatus,
                   adapter, notified, undrained, folded>>

\* Block "Set up MAC address".
PrepSetUpMacAddress(I) ==
    /\ pnpPc = "prep_mac"
    /\ \E random \in I.random :
          LET mac0 == hw.MacAddress0.addr
              current == IF mac0 = OnesMac \/ mac0 = ZeroMac
                         THEN <<242, 0>> \o random
                         ELSE IF mac0[1] % 2 = 1
                         THEN [mac0 EXCEPT ![1] = @ - 1]
                         ELSE mac0
          IN context' = [context EXCEPT
                            !.permanentMacAddress = mac0,
                            !.currentMacAddress =
                                IF prep.configHasMacAddress THEN @ ELSE current]
    /\ prep' = [Enter("SetUpMacAddress") EXCEPT
                   !.resources = <<>>, !.mapped = <<>>, !.bound = <<>>]
    /\ pnpPc' = "prep_features"
    /\ lastCall' = NoCall
    /\ counted' = {}
    /\ UNCHANGED <<hw, lock, devState, setPc, setArg, dpcQueued, dpcPc, dpcStatus,
                   adapter, notified, undrained, folded>>

\* if (version.RkVer < 0x51 || version.UserVer > 0x52)
VersionNotSupported(version) == version.RkVer < 81 \/ version.UserVer > 82

\* Block "Read features".
PrepReadFeatures(I) ==
    /\ pnpPc = "prep_features"
    /\ \E rk \in I.RkVer, user \in I.UserVer, aw \in I.AddressWidth :
          LET version == [RkVer |-> rk, UserVer |-> user]
              p1 == [Enter("ReadFeatures") EXCEPT
                        !.version = version,
                        !.configAddress = PrepIdle.configAddress]
          IN /\ context' = [context EXCEPT
                               !.feature0 = [Gmii |-> TRUE, MacAddrCount |-> 1],
                               !.feature1 = [AddressWidth |-> aw,
                                             TxFifoSize |-> 5, RxFifoSize |-> 5]]
             /\ IF VersionNotSupported(version)
                THEN /\ prep' = [p1 EXCEPT
                                   !.status = "STATUS_DEVICE_CONFIGURATION_ERROR"]
                     /\ pnpPc' = "prep_done"
                ELSE /\ prep' = p1
                     /\ pnpPc' = "prep_dma"
    /\ lastCall' = NoCall
    /\ counted' = {}
    /\ UNCHANGED <<hw, lock, devState, setPc, setArg, dpcQueued, dpcPc, dpcStatus,
                   adapter, notified, undrained, folded>>

\* The switch on feature1.AddressWidth.  The result is AddressWidthOverride,
\* the number w of address bits; maxPhysicalAddress is 2^w - 1.  0 stands
\* for the default branch.
AddressBitsOf(addressWidth) ==
    CASE addressWidth = AddressWidth_32 -> 32
      [] addressWidth = AddressWidth_40 -> 40
      [] addressWidth = AddressWidth_48 -> 48
      [] OTHER -> 0

\* "Create DMA enabler" without the goto Done after a failed
\* WdfDmaEnablerCreate.
PrepCreateDmaEnabler_NoGoto(I) ==
    /\ pnpPc = "prep_dma"
    /\ \E createStatus \in I.dmaCreate :
          LET max == AddressBitsOf(context.feature1.AddressWidth)
              p1 == Enter("CreateDmaEnabler")
          IN IF max = 0
             THEN /\ prep' = [p1 EXCEPT
                                !.status = "STATUS_DEVICE_CONFIGURATION_ERROR"]
                  /\ pnpPc' = "prep_done"
                  /\ UNCHANGED context
             ELSE /\ prep' = [p1 EXCEPT !.status = createStatus,
                                        !.maxPhysicalAddress = max]
                  /\ pnpPc' = "prep_adapter"
                  /\ IF NT_SUCCESS(createStatus)
                     THEN context' = [context EXCEPT !.dma = "DMA"]
                     ELSE UNCHANGED context
    /\ lastCall' = NoCall
    /\ counted' = {}
    /\ UNCHANGED <<hw, lock, devState, setPc, setArg, dpcQueued, dpcPc, dpcStatus,
                   adapter, notified, undrained, folded>>

\* Block "Create DMA enabler".
PrepCreateDmaEnabler(I) ==
    /\ pnpPc = "prep_dma"
    /\ \E createStatus \in I.dmaCreate :
          LET max == AddressBitsOf(context.feature1.AddressWidth)
              p1 == Enter("CreateDmaEnabler")
          IN IF max = 0
             THEN /\ prep' = [p1 EXCEPT
                                !.status = "STATUS_DEVICE_CONFIGURATION_ERROR"]
                  /\ pnpPc' = "prep_done"
                  /\ UNCHANGED context
             ELSE /\ prep' = [p1 EXCEPT !.status = createStatus,
                                        !.maxPhysicalAddress = max]
                  /\ IF NT_SUCCESS(createStatus)
                     THEN /\ context' = [context EXCEPT !.dma = "DMA"]
                          /\ pnpPc' = "prep_adapter"
                     ELSE /\ pnpPc' = "prep_done"
                          /\ UNCHANGED context
    /\ lastCall' = NoCall
    /\ counted' = {}
    /\ UNCHANGED <<hw, lock, devState, setPc, setArg, dpcQueued, dpcPc, dpcStatus,
                   adapter, notified, undrained, folded>>

\* Block "Update adapter configuration".
PrepUpdateAdapter ==
    /\ pnpPc = "prep_adapter"
    /\ adapter' = [adapter EXCEPT
                      !.currentAddress = context.currentMacAddress,
                      !.permanentAddress = context.permanentMacAddress,
                      !.linkState = [speed |-> 0,
                                     connect |-> "MediaConnectStateDisconnected",
                                     duplex |-> "MediaDuplexStateUnknown"],
                      !.maxPhysicalAddress = prep.maxPhysicalAddress]
    /\ prep' = Enter("UpdateAdapter")
    /\ pnpPc' = "prep_init"
    /\ lastCall' = NoCall
    /\ counted' = {}
    /\ UNCHANGED <<context, hw, lock, devState, setPc, setArg, dpcQueued, dpcPc,
                   dpcStatus, notified, undrained, folded>>

\* Block "Initialize adapter": DeviceReset and the bus-mode programming.
PrepInitializeAdapter(I) ==
    /\ pnpPc = "prep_init"
    /\ \E resetPolls \in I.resetPolls :
          LET r == DeviceReset(hw, context.currentMacAddress, resetPolls)
              p1 == [Enter("InitializeAdapter") EXCEPT
                        !.status = r.status, !.resetPolls = resetPolls,
                        !.polls = r.polls]
          IN /\ prep' = p1
             /\ IF NT_SUCCESS(r.status)
                THEN /\ hw' = [r.hw EXCEPT !.DmaSysBusModeSet = TRUE]
                     /\ pnpPc' = "prep_start"
                ELSE /\ hw' = r.hw
                     /\ pnpPc' = "prep_done"
    /\ lastCall' = NoCall
    /\ counted' = {}
    /\ UNCHANGED <<context, lock, devState, setPc, setArg, dpcQueued, dpcPc,
                   dpcStatus, adapter, notified, undrained, folded>>

\* "Start adapter".
PrepStartAdapter(I) ==
    /\ pnpPc = "prep_start"
    /\ \E startStatus \in I.start :
          /\ prep' = [Enter("StartAdapter") EXCEPT !.status = startStatus]
          /\ adapter' = [adapter EXCEPT !.started = NT_SUCCESS(startStatus)]
    /\ pnpPc' = "prep_done"
    /\ lastCall' = NoCall
    /\ counted' = {}
    /\ UNCHANGED <<context, hw, lock, devState, setPc, setArg, dpcQueued, dpcPc,
                   dpcStatus, notified, undrained, folded>>

\* Done: return status.  The framework powers the device up only after a
\* successful return, and calls DeviceReleaseHardware after a failing one.
PrepDone ==
    /\ pnpPc = "prep_done"
    /\ pnpPc' = "idle"
    /\ devState' = IF NT_SUCCESS(prep.status) THEN "PoweredOff" ELSE "PrepareFailed"
    /\ prep' = [PrepIdle EXCEPT !.status = prep.status]
    /\ lastCall' = NoCall
    /\ counted' = {}
    /\ UNCHANGED <<context, hw, lock, setPc, setArg, dpcQueued, dpcPc, dpcStatus,
                   adapter, notified, undrained, folded>>

DevicePrepareHardware(I) ==
    \/ PrepReadConfiguration(I)
    \/ PrepConfigureResources(I)
    \/ PrepSetUpMacAddress(I)
    \/ PrepReadFeatures(I)
    \/ PrepCreateDmaEnabler(I)
    \/ PrepUpdateAdapter
    \/ PrepInitializeAdapter(I)
    \/ PrepStartAdapter(I)
    \/ PrepDone

(***************************************************************************)
(* DeviceReleaseHardware.  The framework has flushed the DPC and deletes   *)
(* the interrupt object it created for DevicePrepareHardware.              *)
(***************************************************************************)
DeviceReleaseHardware(I) ==
    /\ devState \in {"PoweredOff", "PrepareFailed"}
    /\ pnpPc = "idle"
    /\ dpcPc = "idle"
    /\ ~dpcQueued
    /\ IF context.regs # NULL
       THEN \E resetPolls \in I.resetPolls :
               /\ hw' = DeviceReset(hw, context.permanentMacAddress, resetPolls).hw
               /\ context' = [context EXCEPT !.regs = NULL]
       ELSE UNCHANGED <<context, hw>>
    /\ adapter' = [adapter EXCEPT !.interruptObject = FALSE, !.started = FALSE]
    /\ devState' = "Unattached"
    /\ lastCall' = NoCall
    /\ counted' = {}
    /\ UNCHANGED <<lock, pnpPc, setPc, setArg, dpcQueued, dpcPc, dpcStatus, prep,
                   notified, undrained, folded>>

(***************************************************************************)
(* The driver with its environment.                                        *)
(***************************************************************************)
Next ==
    \/ DevicePrepareHardware(PipelineInputs)
    \/ DeviceReleaseHardware(PipelineInputs)
    \/ DeviceD0Entry
    \/ DeviceD0Exit
    \/ DeviceSetNotificationRxQueue
    \/ DeviceSetNotificationTxQueue
    \/ DeviceInterruptIsr
    \/ DeviceInterruptDpc
    \/ HwChannelEvent
    \/ HwLinkEvent

Spec == Init /\ [][Next]_vars

\* The interrupt pipeline of a device in D0 with its scheduling: a queued DPC
\* is run and runs on, a registration that holds the lock goes on to release
\* it, and a DPC spinning on the lock gets it.
DrainNext ==
    \/ DevicePrepareHardware(PipelineInputs)
    \/ DeviceD0Entry
    \/ DeviceSetNotificationRxQueue
    \/ DeviceSetNotificationTxQueue
    \/ DeviceInterruptIsr
    \/ DeviceInterruptDpc
    \/ HwChannelBurst

DrainSpec ==
    /\ Init /\ [][DrainNext]_vars
    /\ WF_vars(DeviceInterruptDpc)
    /\ SF_vars(DpcDisable)
    /\ \A d \in Directions : WF_vars(SetNotificationMask(d))

\* The same pipeline with the interrupt line as well: the line is level
\* triggered, so while the device holds it asserted the ISR is called.
NotifySpec ==
    /\ Init /\ [][DrainNext]_vars
    /\ WF_vars(LineAsserted /\ DeviceInterruptIsr)
    /\ WF_vars(DeviceInterruptDpc)
    /\ SF_vars(DpcDisable)
    /\ \A d \in Directions : WF_vars(SetNotificationMask(d))

\* Attachment alone, over every outcome of every step.
AttachNext ==
    \/ DevicePrepareHardware(AttachInputs)
    \/ DeviceReleaseHardware(AttachInputs)

AttachSpec == AttachInit /\ [][AttachNext]_vars

\* The link-state path alone, over every PHY status: the refresh of
\* DeviceD0Entry and the refresh the DPC makes on a link interrupt.
LinkNext ==
    \/ DevicePrepareHardware(PipelineInputs)
    \/ DeviceD0Entry
    \/ HwLinkChange
    \/ DeviceInterruptIsr
    \/ DpcExchange

LinkSpec == Init /\ [][LinkNext]_vars


(***************************************************************************)
(* Properties.                                                             *)
(***************************************************************************)
\* C1: between two registrations of a queue for a direction the DPC calls
\* that queue's callback at most once; once the callback is made and the lock
\* is released the handle is gone and the direction's interrupt is off, so a
\* further callback needs a fresh registration.
C1_AtMostOneNotification ==
    \A d \in Directions :
        /\ notified[d] <= 1
        /\ (notified[d] = 1 /\ lock = "free") =>
              /\ Slot(context, d) = NULL
              /\ ~BitSet(context.interruptsWanted, IF d = "rx" THEN 1 ELSE 2)

\* A second receive event reaches the notify step of a later DPC pass although
\* the one callback of the registration has been made already.
C1_Witness ==
    /\ notified["rx"] = 1
    /\ dpcPc = "rx"
    /\ "Rx" \in dpcStatus
    /\ context.rxQueue = NULL

\* C2: whenever the lock is free, a direction without a registered queue has
\* its bit clear in interruptsWanted.
C2_NoInterruptWithoutConsumer ==
    lock = "free" =>
        /\ (context.rxQueue = NULL => "Rx" \notin ClassesOf(context.interruptsWanted))
        /\ (context.txQueue = NULL => "Tx" \notin ClassesOf(context.interruptsWanted))

\* Register then clear: the clearing call has just turned the receive bit off.
C2_Witness ==
    /\ lock = "free"
    /\ context.rxQueue = NULL
    /\ lastCall.op = "disable"
    /\ lastCall.bits = InterruptsRx
    /\ "Rx" \in ClassesOf(lastCall.old)
    /\ dpcPc = "idle"

\* C3: whenever the lock is free, a direction with a registered queue has its
\* bit set in interruptsWanted, in every state of the device lifecycle.
C3_NoConsumerWithoutInterrupt ==
    lock = "free" =>
        /\ (context.rxQueue # NULL => "Rx" \in ClassesOf(context.interruptsWanted))
        /\ (context.txQueue # NULL => "Tx" \in ClassesOf(context.interruptsWanted))

\* Both directions registered while a DPC pass that has notified the transmit
\* queue once is still running: the transmit queue has registered again.
C3_Witness ==
    /\ lock = "free"
    /\ context.rxQueue # NULL
    /\ context.txQueue # NULL
    /\ lastCall.op = "enable"
    /\ lastCall.bits = InterruptsTx
    /\ dpcPc = "loop"

\* C4: every bit the ISR ORs into interruptStatus is captured by exactly one
\* exchange of the DPC: a bit is owed to the DPC exactly while it is in the
\* word, never dropped and never captured twice, and while the word is
\* nonzero a DPC run is queued or in progress.
C4_DrainExactlyOnce ==
    /\ \A b \in StatusBits :
          undrained[b] = IF b \in context.interruptStatus THEN 1 ELSE 0
    /\ context.interruptStatus # {} => (dpcQueued \/ dpcPc # "idle")

\* The ISR has added a bit while the DPC is inside its loop, holding the lock.
C4_Witness ==
    /\ dpcPc \in {"rx", "rxclear", "tx", "txclear", "release"}
    /\ counted = {"isrHandled"}
    /\ "Tx" \in context.interruptStatus
    /\ "Rx" \in dpcStatus

\* C5: interruptsWanted is the left fold of the enable/disable calls made so
\* far, enable adding the classes of its argument and disable removing them,
\* starting from InterruptsNone; disabling InterruptsAll leaves the empty mask.
C5_MaskIsFold ==
    /\ ClassesOf(context.interruptsWanted) = folded
    /\ context.interruptsWanted \in 0..7
    /\ (lastCall.op = "disable" /\ lastCall.bits = InterruptsAll) =>
           context.interruptsWanted = InterruptsNone

\* A disable that removes one class out of three.
C5_Witness ==
    /\ lastCall.op = "disable"
    /\ ClassesOf(lastCall.old) = {"State", "Rx", "Tx"}
    /\ folded = {"State", "Tx"}

\* C6: a call that leaves the mask as it was writes no register and changes
\* none; a call that changes the mask writes each of the two enable registers
\* exactly once.
C6_WritesOnlyOnChange ==
    lastCall.op # "none" =>
        IF context.interruptsWanted = lastCall.old
        THEN /\ lastCall.writes = <<>>
             /\ hw.MacInterruptEnable = lastCall.oldMac
             /\ hw.DmaCh0InterruptEnable = lastCall.oldCh
        ELSE /\ Len(lastCall.writes) = 2
             /\ {lastCall.writes[i] : i \in 1..2} =
                    {"MacInterruptEnable", "DmaCh0InterruptEnable"}

\* An enable of a class that is enabled already.
C6_Witness ==
    /\ lastCall.op = "enable"
    /\ lastCall.bits = InterruptsRx
    /\ "Rx" \in ClassesOf(lastCall.old)
    /\ context.interruptsWanted = lastCall.old

\* C7: in D0 with the lock free, MacInterruptEnable and DmaCh[0].InterruptEnable
\* are what interruptsWanted says, and NormalInterruptSummary is set.
C7_EnableRegistersMatchMask ==
    (InD0 /\ lock = "free") =>
        LET wanted == ClassesOf(context.interruptsWanted)
        IN /\ hw.MacInterruptEnable.LinkStatus = ("State" \in wanted)
           /\ hw.DmaCh0InterruptEnable.Rx = ("Rx" \in wanted)
           /\ hw.DmaCh0InterruptEnable.Tx = ("Tx" \in wanted)
           /\ hw.DmaCh0InterruptEnable.FatalBusError = ("State" \in wanted)
           /\ hw.DmaCh0InterruptEnable.AbnormalInterruptSummary = ("State" \in wanted)
           /\ hw.DmaCh0InterruptEnable.NormalInterruptSummary

\* In D0, lock free, transmit wanted and receive not.
C7_Witness ==
    /\ InD0
    /\ lock = "free"
    /\ ClassesOf(context.interruptsWanted) = {"State", "Tx"}
    /\ lastCall.op = "disable"

\* The blocks of DevicePrepareHardware in program order.
BlockOrder ==
    <<"ReadConfiguration", "ConfigureResources", "SetUpMacAddress", "ReadFeatures",
      "CreateDmaEnabler", "UpdateAdapter", "InitializeAdapter", "StartAdapter">>

\* C8 as stated: after a failing return of DevicePrepareHardware the context
\* references no mapped register region.
C8_FailedPrepareLeavesNothingMapped ==
    (devState = "PrepareFailed" /\ pnpPc = "idle") => context.regs = NULL

\* C8: a failing step ends DevicePrepareHardware at once and the device is
\* not powered up; the call returns success only when every block has run and
\* every step has succeeded.  The register region is mapped at a failing
\* return only when the failure came after the mapping, and
\* DeviceReleaseHardware then unmaps it.
C8_FailureShortCircuits ==
    /\ pnpPc = "prep_done" =>
          /\ prep.trace = SubSeq(BlockOrder, 1, Len(prep.trace))
          /\ NT_SUCCESS(prep.status) =>
                /\ prep.trace = BlockOrder
                /\ context.regs # NULL
                /\ context.interrupt # NULL
                /\ context.dma # NULL
                /\ prep.maxPhysicalAddress # 0
                /\ ~hw.resetStuck
                /\ adapter.started
          /\ ~NT_SUCCESS(prep.status) =>
                /\ ~adapter.started
                /\ (context.regs # NULL => Len(prep.trace) >= 2)
    /\ devState \in {"PoweredOff", "Active"} => NT_SUCCESS(prep.status)
    /\ devState = "PrepareFailed" => ~NT_SUCCESS(prep.status)
    /\ (devState = "Unattached" /\ pnpPc = "idle") => context.regs = NULL

\* A failing return with the register region still mapped.
C8_Witness ==
    /\ devState = "PrepareFailed"
    /\ pnpPc = "idle"
    /\ context.regs # NULL
    /\ prep.status = "STATUS_TIMEOUT"

\* C9: with the reset bit reading set for K polls, DeviceReset succeeds when
\* K < 1000 and returns STATUS_TIMEOUT when K > 1000, it never polls more than
\* 1000 times, and DevicePrepareHardware returns the timeout.
C9_ResetRetry ==
    /\ (pnpPc \in {"prep_start", "prep_done"}
          /\ prep.trace[Len(prep.trace)] = "InitializeAdapter") =>
          /\ prep.polls <= 1000
          /\ prep.resetPolls < 1000 =>
                /\ prep.status = "STATUS_SUCCESS"
                /\ pnpPc = "prep_start"
                /\ prep.polls = prep.resetPolls + 1
          /\ prep.resetPolls > 1000 =>
                /\ prep.status = "STATUS_TIMEOUT"
                /\ pnpPc = "prep_done"
    /\ (pnpPc = "idle" /\ prep.status = "STATUS_TIMEOUT") =>
          devState \in {"PrepareFailed", "Unattached"}

\* The reset bit outlasts the budget and DevicePrepareHardware is about to
\* return the timeout.
C9_Witness ==
    /\ pnpPc = "prep_done"
    /\ prep.trace[Len(prep.trace)] = "InitializeAdapter"
    /\ prep.resetPolls > 1000
    /\ prep.polls = 1000
    /\ prep.status = "STATUS_TIMEOUT"

\* C10 as stated: the "Read features" block fails with a configuration error
\* exactly when the revision read from MacVersion is outside 0x51..0x52.
C10_RevisionRangeChecked ==
    (pnpPc \in {"prep_dma", "prep_done"} /\ prep.trace[Len(prep.trace)] = "ReadFeatures") =>
        LET inRange == prep.version.RkVer \in 81..82
            rejected == /\ pnpPc = "prep_done"
                        /\ prep.status = "STATUS_DEVICE_CONFIGURATION_ERROR"
        IN rejected = ~inRange

\* Index of the first descriptor of a list that is a memory region large
\* enough for the registers / that is an interrupt; 0 when there is none.
FirstUsableMemory(list) ==
    LET S == {i \in 1..Len(list) :
                 list[i].Type = "CmResourceTypeMemory" /\ ~list[i].Undersized}
    IN IF S = {} THEN 0 ELSE CHOOSE i \in S : \A j \in S : i <= j

FirstInterrupt(list) ==
    LET S == {i \in 1..Len(list) : list[i].Type = "CmResourceTypeInterrupt"}
    IN IF S = {} THEN 0 ELSE CHOOSE i \in S : \A j \in S : i <= j

\* The "Configure resources" block has just run and neither MmMapIoSpaceEx
\* nor WdfInterruptCreate has failed in it.
ResourcesEnumerated ==
    /\ pnpPc \in {"prep_mac", "prep_done"}
    /\ prep.trace[Len(prep.trace)] = "ConfigureResources"
    /\ prep.status # "STATUS_INSUFFICIENT_RESOURCES"

\* C11 as stated: for every resource list DevicePrepareHardware maps exactly
\* the first memory region that is large enough and binds exactly the first
\* interrupt, and it fails with STATUS_DEVICE_CONFIGURATION_ERROR exactly when
\* the list holds no such region or no interrupt.
C11_ResourceEnumeration ==
    ResourcesEnumerated =>
        LET mem == FirstUsableMemory(prep.resources)
            int == FirstInterrupt(prep.resources)
        IN /\ prep.mapped = IF mem = 0 THEN <<>> ELSE <<mem>>
           /\ prep.bound = IF int = 0 THEN <<>> ELSE <<int>>
           /\ (mem = 0 \/ int = 0) <=>
                 /\ pnpPc = "prep_done"
                 /\ prep.status = "STATUS_DEVICE_CONFIGURATION_ERROR"


\* C12: when the block "Set up MAC address" has run, a configured address
\* that was found, is six bytes long and is neither multicast nor broadcast is
\* the current MAC address, byte for byte, whatever MacAddress[0] holds; any
\* other configured value is ignored and the current address is the one the
\* permanent-address path yields.
C12_ConfiguredMacOverrides ==
    pnpPc = "prep_features" =>
        LET cfg == prep.configAddress
            perm == hw.MacAddress0.addr
        IN IF /\ cfg.status = "STATUS_SUCCESS"
              /\ cfg.Length = 6
              /\ cfg.Address[1] % 2 = 0
              /\ cfg.Address # OnesMac
           THEN context.currentMacAddress = cfg.Address
           ELSE IF perm \in {OnesMac, ZeroMac}
           THEN SubSeq(context.currentMacAddress, 1, 2) = <<242, 0>>
           ELSE context.currentMacAddress = [perm EXCEPT ![1] = @ - (@ % 2)]

\* A configured unicast address has replaced an unprogrammed register value.
C12_Witness ==
    /\ pnpPc = "prep_features"
    /\ prep.configAddress.status = "STATUS_SUCCESS"
    /\ prep.configAddress.Address = ConfiguredMac
    /\ prep.configAddress.Length = 6
    /\ hw.MacAddress0.addr = OnesMac
    /\ context.permanentMacAddress = OnesMac
    /\ context.currentMacAddress = ConfiguredMac


\* C13: when the block "Set up MAC address" has run, the permanent address
\* recorded is the value read from MacAddress[0]; and with no usable
\* configured address, a register of all ones or all zeros gives a current
\* address of F2:00 followed by the four random bytes, a register value with
\* the multicast bit set gives that value with only that bit cleared, and any
\* other register value is the current address unchanged.
C13_PermanentMacFallback ==
    pnpPc = "prep_features" =>
        LET perm == hw.MacAddress0.addr
            cur == context.currentMacAddress
        IN /\ context.permanentMacAddress = perm
           /\ ~prep.configHasMacAddress =>
                 IF (\A i \in 1..6 : perm[i] = 255) \/ (\A i \in 1..6 : perm[i] = 0)
                 THEN /\ cur[1] = 242
                      /\ cur[2] = 0
                      /\ SubSeq(cur, 3, 6) \in AttachInputs.random
                 ELSE IF perm[1] % 2 = 1
                 THEN /\ cur[1] = perm[1] - 1
                      /\ \A i \in 2..6 : cur[i] = perm[i]
                 ELSE cur = perm

\* A register value with the multicast bit set has been corrected.
C13_Witness ==
    /\ pnpPc = "prep_features"
    /\ ~prep.configHasMacAddress
    /\ context.permanentMacAddress = <<1, 17, 34, 51, 68, 85>>
    /\ context.currentMacAddress = <<0, 17, 34, 51, 68, 85>>


\* C14: every link-state refresh (the one of DeviceD0Entry, made on the
\* configuration it has just written, and the one the DPC makes on a link
\* interrupt) reports 10 Mb/s, 100 Mb/s and 1000 Mb/s for the speed codes
\* 2.5M, 25M and 125M and writes the matching port-select value; for any other
\* code it reports speed 0 and leaves the port-select field as it was; in
\* every case the link state is reported with the PHY's connect and duplex
\* status.
C14_LinkSpeedMapping ==
    [][LET d0 == pnpPc = "idle" /\ pnpPc' = "d0entry_enable"
           dpc == dpcPc \in {"idle", "loop"} /\ "dpcLinkState" \in counted'
           phy == hw.MacPhyIfControlStatus
           before == IF d0 THEN PortSelectSpeed_Reset
                     ELSE hw.MacConfiguration.PortSelectSpeed
           port == hw'.MacConfiguration.PortSelectSpeed
           report == adapter'.linkState
       IN (d0 \/ dpc) =>
             /\ phy.Speed = 0 => report.speed = 10000000 /\ port = "PortSelectSpeed_10M"
             /\ phy.Speed = 1 => report.speed = 100000000 /\ port = "PortSelectSpeed_100M"
             /\ phy.Speed = 2 => report.speed = 1000000000 /\ port = "PortSelectSpeed_1000M"
             /\ phy.Speed \notin {0, 1, 2} => report.speed = 0 /\ port = before
             /\ report.connect = IF phy.LinkUp THEN "MediaConnectStateConnected"
                                  ELSE "MediaConnectStateDisconnected"
             /\ report.duplex = IF phy.FullDuplex THEN "MediaDuplexStateFull"
                                 ELSE "MediaDuplexStateHalf"
      ]_vars

\* The DPC has refreshed the link state on an undefined speed code while the
\* port-select field held the value of an earlier gigabit link.
C14_Witness ==
    /\ "dpcLinkState" \in counted
    /\ hw.MacPhyIfControlStatus.Speed = 3
    /\ hw.MacPhyIfControlStatus.LinkUp
    /\ adapter.linkState.speed = 0
    /\ adapter.linkState.connect = "MediaConnectStateConnected"
    /\ hw.MacConfiguration.PortSelectSpeed = PortSelectSpeed_1000M


\* C15: DeviceD0Entry leaves the wanted mask alone until its last call, and
\* that call turns an empty mask into exactly InterruptsState; and whenever a
\* step sets the Rx or the Tx bit of the wanted mask, the step is the mask
\* update of DeviceSetNotificationRxQueue or DeviceSetNotificationTxQueue for
\* that direction, called with a queue.
C15_EntryEnablesStateOnly ==
    [][/\ (pnpPc = "idle" /\ pnpPc' = "d0entry_enable") =>
              context'.interruptsWanted = context.interruptsWanted
       /\ (pnpPc = "d0entry_enable" /\ pnpPc' = "d0entry_enable") =>
              context'.interruptsWanted = context.interruptsWanted
       /\ (pnpPc = "d0entry_enable" /\ pnpPc' = "idle"
              /\ context.interruptsWanted = InterruptsNone) =>
              context'.interruptsWanted = InterruptsState
       /\ \A d \in Directions :
              LET bit == IF d = "rx" THEN 1 ELSE 2
              IN (~BitSet(context.interruptsWanted, bit)
                    /\ BitSet(context'.interruptsWanted, bit)) =>
                     /\ setPc[d] = "mask"
                     /\ setPc'[d] = "idle"
                     /\ setArg[d] = QueueOf(d)
      ]_vars

\* DeviceD0Entry has returned after enabling InterruptsState on an empty mask.
C15_Witness ==
    /\ devState = "Active"
    /\ pnpPc = "idle"
    /\ lastCall.op = "enable"
    /\ lastCall.bits = InterruptsState
    /\ lastCall.old = InterruptsNone
    /\ context.interruptsWanted = InterruptsState


\* C16: the first step of DeviceD0Exit empties the wanted mask and leaves no
\* interrupt class enabled in MacInterruptEnable and DmaCh[0].InterruptEnable
\* while the MAC configuration is still untouched; the step on which it
\* returns clears ReceiverEnable and TransmitterEnable, keeps every other
\* field of MacConfiguration, and finds and leaves the mask empty and the
\* classes disabled.
C16_ExitDisablesThenStopsMac ==
    [][LET Off(h) == /\ ~h.MacInterruptEnable.LinkStatus
                     /\ ~h.DmaCh0InterruptEnable.Rx
                     /\ ~h.DmaCh0InterruptEnable.Tx
                     /\ ~h.DmaCh0InterruptEnable.FatalBusError
                     /\ ~h.DmaCh0InterruptEnable.AbnormalInterruptSummary
       IN /\ (pnpPc = "idle" /\ pnpPc' = "d0exit_mac") =>
                /\ context'.interruptsWanted = InterruptsNone
                /\ Off(hw')
                /\ hw'.MacConfiguration = hw.MacConfiguration
          /\ (pnpPc = "d0exit_mac" /\ pnpPc' = "idle") =>
                /\ context.interruptsWanted = InterruptsNone
                /\ context'.interruptsWanted = InterruptsNone
                /\ Off(hw)
                /\ Off(hw')
                /\ ~hw'.MacConfiguration.ReceiverEnable
                /\ ~hw'.MacConfiguration.TransmitterEnable
                /\ \A f \in DOMAIN hw.MacConfiguration \ {"ReceiverEnable", "TransmitterEnable"} :
                       hw'.MacConfiguration[f] = hw.MacConfiguration[f]
      ]_vars

\* DeviceD0Exit has returned on a gigabit link: the mask is empty, the MAC is
\* off, and the fields DeviceD0Entry and UpdateLinkState wrote are kept.
C16_Witness ==
    /\ devState = "PoweredOff"
    /\ pnpPc = "idle"
    /\ context.interruptsWanted = InterruptsNone
    /\ ~hw.MacInterruptEnable.LinkStatus
    /\ ~hw.MacConfiguration.ReceiverEnable
    /\ ~hw.MacConfiguration.TransmitterEnable
    /\ hw.MacConfiguration.PacketBurstEnable
    /\ hw.MacConfiguration.PortSelectSpeed = PortSelectSpeed_1000M


\* C17 as stated: when DeviceReleaseHardware returns from a call that found
\* the registers mapped, no interrupt class is enabled in the enable
\* registers, MacAddress[0] holds the permanent address, and context->regs is
\* null.
C17_ReleaseRestoresPermanentMac ==
    [][(devState \in {"PoweredOff", "PrepareFailed"} /\ devState' = "Unattached"
          /\ context.regs # NULL) =>
             /\ ~hw'.MacInterruptEnable.LinkStatus
             /\ ~hw'.DmaCh0InterruptEnable.Rx
             /\ ~hw'.DmaCh0InterruptEnable.Tx
             /\ ~hw'.DmaCh0InterruptEnable.FatalBusError
             /\ ~hw'.DmaCh0InterruptEnable.AbnormalInterruptSummary
             /\ hw'.MacAddress0.addr = context.permanentMacAddress
             /\ context'.regs = NULL
      ]_vars


\* C18: a step that adds a bit to the wanted mask is the enable call of
\* DeviceD0Entry or of a queue registration, and a step that fills a queue slot
\* is a queue registration, so the ISR and the DPC do neither; and from the
\* disable call of DeviceD0Exit until the enable call of the next
\* DeviceD0Entry the mask is empty, no class is enabled in the enable
\* registers and the interrupt line is not asserted, whatever status bits the
\* device raises and whatever DPC is still running.
C18_ShutdownByMasking ==
    [][/\ (\E b \in 0..7 : ~BitSet(context.interruptsWanted, b)
                              /\ BitSet(context'.interruptsWanted, b)) =>
              \/ pnpPc = "d0entry_enable" /\ pnpPc' = "idle"
              \/ \E d \in Directions :
                    setPc[d] = "mask" /\ setPc'[d] = "idle" /\ setArg[d] # NULL
       /\ \A d \in Directions :
              (Slot(context, d) = NULL /\ Slot(context', d) # NULL) =>
                  setPc[d] = "idle" /\ setPc'[d] = "mask"
       /\ (devState' = "PoweredOff" \/ pnpPc' = "d0exit_mac") =>
              /\ context'.interruptsWanted = InterruptsNone
              /\ ~hw'.MacInterruptEnable.LinkStatus
              /\ ~hw'.DmaCh0InterruptEnable.Rx
              /\ ~hw'.DmaCh0InterruptEnable.Tx
              /\ ~hw'.DmaCh0InterruptEnable.FatalBusError
              /\ ~hw'.DmaCh0InterruptEnable.AbnormalInterruptSummary
              /\ ~LineAsserted'
      ]_vars

\* After DeviceD0Exit a DPC is still running and the device holds a channel
\* status bit, with the line not asserted.
C18_Witness ==
    /\ devState = "PoweredOff"
    /\ hw.MacConfiguration.PacketBurstEnable
    /\ dpcPc # "idle"
    /\ hw.DmaCh0Status # {}
    /\ context.interruptsWanted = InterruptsNone
    /\ ~LineAsserted


\* C19: a run of the DPC ends on the step whose exchange of interruptStatus
\* returns zero and on no other step; and if the ISR takes only finitely many
\* interrupts, every run of the DPC reaches that end, with interruptStatus
\* zero.
C19_DrainLoopTerminates ==
    /\ [][/\ (dpcPc # "idle" /\ dpcPc' = "idle") =>
                 dpcPc = "loop" /\ context.interruptStatus = {}
          /\ (dpcPc = "loop" /\ dpcPc' # "idle" /\ dpcPc' # dpcPc) =>
                 context.interruptStatus # {}
         ]_vars
    /\ (<>[][counted' # {"isrHandled"}]_vars) =>
          ((dpcPc # "idle") ~> (dpcPc = "idle" /\ context.interruptStatus = {}))

\* A run of the DPC is back at the top of its loop with new status bits that
\* the ISR stored while it was running.
C19_Witness ==
    /\ dpcPc = "loop"
    /\ context.interruptStatus # {}
    /\ dpcQueued


\* C20: a call of the ISR counts as handled exactly when MacInterruptStatus
\* shows LinkStatus or DmaCh[0].Status is not zero; it then ORs the bits it
\* read into interruptStatus, clears them in the device and leaves the DPC
\* queued.  Any other call counts as ignored and nothing else, and leaves
\* interruptStatus, the status registers and the DPC (queued or not, and
\* where it stands) as they were.
C20_IsrOutcome ==
    [][LET pending == hw.MacInterruptStatus.LinkStatus \/ hw.DmaCh0Status # {}
           bits == hw.DmaCh0Status
                     \cup (IF hw.MacInterruptStatus.LinkStatus THEN {LinkStatusBit}
                           ELSE {})
       IN /\ counted' = {"isrHandled"} =>
                /\ pending
                /\ context'.interruptStatus = context.interruptStatus \cup bits
                /\ dpcQueued'
                /\ dpcPc' = dpcPc
                /\ ~hw'.MacInterruptStatus.LinkStatus
                /\ hw'.DmaCh0Status = {}
          /\ counted' = {"isrIgnored"} =>
                /\ ~pending
                /\ context' = context
                /\ hw' = hw
                /\ dpcQueued' = dpcQueued
                /\ dpcPc' = dpcPc
      ]_vars

\* The ISR has been called with nothing pending while bits of an earlier
\* interrupt wait in interruptStatus for the queued DPC.
C20_Witness ==
    /\ counted = {"isrIgnored"}
    /\ context.interruptStatus # {}
    /\ dpcQueued
    /\ hw.DmaCh0Status = {}


\* C21: a call of the ISR leaves the spin lock, interruptsWanted, rxQueue and
\* txQueue as they were and writes nothing of the context but interruptStatus
\* (and the counter it increments); and the ISR can be called and return
\* whenever the interrupt is connected, whoever holds the lock.
C21_IsrLockFree ==
    /\ [][counted' \in {{"isrHandled"}, {"isrIgnored"}} =>
             /\ lock' = lock
             /\ context' = [context EXCEPT !.interruptStatus = context'.interruptStatus]
             /\ setPc' = setPc
             /\ setArg' = setArg
             /\ dpcPc' = dpcPc
         ]_vars
    /\ []((devState = "Active" /\ pnpPc = "idle") => ENABLED DeviceInterruptIsr)

\* The ISR has handled an interrupt while a registration held the lock.
C21_Witness ==
    /\ counted = {"isrHandled"}
    /\ lock = "rx"
    /\ setPc["rx"] = "mask"


\* C22: from its disable call to its release the DPC holds the lock; it
\* calls a queue's callback with the direction's interrupt already disabled
\* and the handle still set, clears the handle on its next step, and releases
\* the lock with the handle of every direction in its status null and that
\* direction disabled; and while it holds the lock no other step changes
\* interruptsWanted, rxQueue or txQueue.
C22_NotifyUnderOneLockHold ==
    [][/\ dpcPc' \in {"rx", "rxclear", "tx", "txclear", "release"} => lock' = "dpc"
       /\ counted' = {"dpcRx"} =>
              /\ lock = "dpc"
              /\ "Rx" \in dpcStatus
              /\ ~BitSet(context.interruptsWanted, 1)
              /\ context.rxQueue # NULL
              /\ context' = context
              /\ dpcPc' = "rxclear"
       /\ counted' = {"dpcTx"} =>
              /\ lock = "dpc"
              /\ "Tx" \in dpcStatus
              /\ ~BitSet(context.interruptsWanted, 2)
              /\ context.txQueue # NULL
              /\ context' = context
              /\ dpcPc' = "txclear"
       /\ (dpcPc = "rxclear" /\ dpcPc' # dpcPc) =>
              context' = [context EXCEPT !.rxQueue = NULL]
       /\ (dpcPc = "txclear" /\ dpcPc' # dpcPc) =>
              context' = [context EXCEPT !.txQueue = NULL]
       /\ (lock = "dpc" /\ dpcPc' = dpcPc) =>
              /\ context'.interruptsWanted = context.interruptsWanted
              /\ context'.rxQueue = context.rxQueue
              /\ context'.txQueue = context.txQueue
              /\ lock' = "dpc"
       /\ (lock = "dpc" /\ lock' # "dpc") =>
              /\ dpcPc = "release"
              /\ "Rx" \in dpcStatus =>
                    context.rxQueue = NULL /\ ~BitSet(context.interruptsWanted, 1)
              /\ "Tx" \in dpcStatus =>
                    context.txQueue = NULL /\ ~BitSet(context.interruptsWanted, 2)
      ]_vars

\* The DPC has called both callbacks in one hold of the lock and is about to
\* clear the transmit handle.
C22_Witness ==
    /\ dpcPc = "txclear"
    /\ lock = "dpc"
    /\ notified["rx"] = 1
    /\ notified["tx"] = 1
    /\ context.rxQueue = NULL
    /\ context.txQueue # NULL
    /\ context.interruptsWanted = InterruptsState


\* C23: no step of the DPC changes the State bit of interruptsWanted or the
\* LinkStatus, FatalBusError and AbnormalInterruptSummary enables, and none
\* sets a mask bit or a handle; a step changes the mask bit, the enable or the
\* handle of a direction only if that direction's bit is in the status the
\* pass has drained; and the step that drains a status with fault or link
\* bits counts them (and refreshes the link state for a link bit) and leaves
\* the mask, the handles and the enable registers as they were.
C23_DrainFrame ==
    [][LET exchange == \/ dpcPc = "idle" /\ dpcQueued /\ ~dpcQueued'
                       \/ dpcPc = "loop" /\ dpcPc' # "loop"
                       \/ dpcPc = "loop" /\ context.interruptStatus # {}
                                         /\ context'.interruptStatus = {}
           later == dpcPc \notin {"idle", "loop"} /\ dpcPc' # dpcPc
           status == context.interruptStatus
       IN /\ (exchange \/ later) =>
                /\ BitSet(context'.interruptsWanted, 0)
                      <=> BitSet(context.interruptsWanted, 0)
                /\ hw'.MacInterruptEnable = hw.MacInterruptEnable
                /\ hw'.DmaCh0InterruptEnable.FatalBusError
                      = hw.DmaCh0InterruptEnable.FatalBusError
                /\ hw'.DmaCh0InterruptEnable.AbnormalInterruptSummary
                      = hw.DmaCh0InterruptEnable.AbnormalInterruptSummary
                /\ \A b \in 0..7 : BitSet(context'.interruptsWanted, b)
                                        => BitSet(context.interruptsWanted, b)
                /\ \A d \in Directions :
                       Slot(context', d) \in {NULL, Slot(context, d)}
          /\ later =>
                /\ "Rx" \notin dpcStatus =>
                       /\ BitSet(context'.interruptsWanted, 1)
                             <=> BitSet(context.interruptsWanted, 1)
                       /\ context'.rxQueue = context.rxQueue
                       /\ hw'.DmaCh0InterruptEnable.Rx = hw.DmaCh0InterruptEnable.Rx
                /\ "Tx" \notin dpcStatus =>
                       /\ BitSet(context'.interruptsWanted, 2)
                             <=> BitSet(context.interruptsWanted, 2)
                       /\ context'.txQueue = context.txQueue
                       /\ hw'.DmaCh0InterruptEnable.Tx = hw.DmaCh0InterruptEnable.Tx
          /\ exchange =>
                /\ context' = [context EXCEPT !.interruptStatus = {}]
                /\ hw'.DmaCh0InterruptEnable = hw.DmaCh0InterruptEnable
                /\ "dpcFatalBusError" \in counted' <=> "FatalBusError" \in status
                /\ "dpcAbnormalStatus" \in counted'
                      <=> "AbnormalInterruptSummary" \in status
                /\ "dpcLinkState" \in counted' <=> LinkStatusBit \in status
                /\ LinkStatusBit \notin status => hw' = hw /\ adapter' = adapter
      ]_vars

\* The DPC has disabled the receive interrupt for a status with Rx alone
\* while the transmit direction stays armed.
C23_Witness ==
    /\ dpcPc = "rx"
    /\ dpcStatus = {"Rx"}
    /\ ~BitSet(context.interruptsWanted, 1)
    /\ BitSet(context.interruptsWanted, 2)
    /\ context.txQueue # NULL
    /\ hw.DmaCh0InterruptEnable.Tx


\* C24 as stated: the channel status bits that are pending when DeviceD0Entry
\* starts are no longer pending once it has passed its access to
\* DmaCh[0].Status, and the line is not asserted when it returns with
\* InterruptsState enabled.
C24_EntryDrainsStaleStatus ==
    [][/\ (pnpPc = "idle" /\ pnpPc' = "d0entry_enable") =>
              hw'.DmaCh0Status \cap hw.DmaCh0Status = {}
       /\ (pnpPc = "d0entry_enable" /\ pnpPc' = "idle") =>
              hw'.DmaCh0Status = {} /\ ~LineAsserted'
      ]_vars


\* C25: a link refresh (the one of DeviceD0Entry, on the configuration it has
\* just written, and the one of the DPC) leaves MacPhyIfControlStatus as it
\* read it, with the link interrupt cleared; the MacConfiguration it leaves
\* differs from the one it found in FullDuplex and PortSelectSpeed at most;
\* UpdateLinkState writes that register once if the derived value differs
\* and not at all if it does not; and the link state published after the call
\* is the one derived from the PHY status, whether or not anything changed.
C25_LinkRefreshFrame ==
    [][LET d0 == pnpPc = "idle" /\ pnpPc' = "d0entry_enable"
           dpc == dpcPc \in {"idle", "loop"} /\ "dpcLinkState" \in counted'
           phy == hw.MacPhyIfControlStatus
           old == IF d0 THEN [ReceiverEnable |-> TRUE, TransmitterEnable |-> TRUE,
                              DisableCarrierSenseDuringTransmit |-> TRUE,
                              PacketBurstEnable |-> TRUE, FullDuplex |-> FALSE,
                              PortSelectSpeed |-> PortSelectSpeed_Reset]
                  ELSE hw.MacConfiguration
           new == hw'.MacConfiguration
           u == UpdateLinkState([hw EXCEPT !.MacConfiguration = old])
       IN (d0 \/ dpc) =>
             /\ hw'.MacPhyIfControlStatus = phy
             /\ ~hw'.MacInterruptStatus.LinkStatus
             /\ \A f \in DOMAIN old \ {"FullDuplex", "PortSelectSpeed"} : new[f] = old[f]
             /\ new.FullDuplex = phy.FullDuplex
             /\ u.configWrites = IF new # old THEN 1 ELSE 0
             /\ adapter'.linkState.connect = IF phy.LinkUp THEN "MediaConnectStateConnected"
                                             ELSE "MediaConnectStateDisconnected"
             /\ adapter'.linkState.duplex = IF phy.FullDuplex THEN "MediaDuplexStateFull"
                                            ELSE "MediaDuplexStateHalf"
             /\ adapter'.linkState.speed \in {0, 10000000, 100000000, 1000000000}
             /\ (new.PortSelectSpeed # old.PortSelectSpeed) => phy.Speed \in {0, 1, 2}
      ]_vars

\* The DPC has refreshed the link state of a half-duplex 100 Mb/s link that
\* went down: the report says disconnected, the MAC stays enabled.
C25_Witness ==
    /\ "dpcLinkState" \in counted
    /\ ~hw.MacPhyIfControlStatus.LinkUp
    /\ hw.MacPhyIfControlStatus.Speed = PhyIfSpeed_25M
    /\ adapter.linkState.connect = "MediaConnectStateDisconnected"
    /\ adapter.linkState.speed = 100000000
    /\ hw.MacConfiguration.PortSelectSpeed = PortSelectSpeed_100M
    /\ hw.MacConfiguration.ReceiverEnable
    /\ hw.MacConfiguration.TransmitterEnable


\* C26 as stated: while the device is in D0, a receive (or transmit) event
\* that is pending for a direction with no handle registered and its
\* interrupt masked -- pending in DmaCh[0].Status, in context->interruptStatus
\* or in the status the DPC has fetched and not yet tested for that
\* direction -- is still pending after every step, so that it is there for
\* the re-registration.
C26_DisarmedEventStaysPending ==
    [][\A d \in Directions :
          LET bit == IF d = "rx" THEN "Rx" ELSE "Tx"
              untested == IF d = "rx" THEN {"acquire", "rx"}
                          ELSE {"acquire", "rx", "rxclear", "tx"}
              pending(h, c, pc, st) ==
                  \/ bit \in h.DmaCh0Status
                  \/ bit \in c.interruptStatus
                  \/ bit \in st /\ pc \in untested
          IN (/\ InD0 /\ InD0'
              /\ Slot(context, d) = NULL
              /\ bit \notin ClassesOf(context.interruptsWanted)
              /\ pending(hw, context, dpcPc, dpcStatus))
                => pending(hw', context', dpcPc', dpcStatus')
      ]_vars


C28_RegistrationNotLost ==
    /\ [](\A d \in Directions :
            /\ setPc[d] = "mask" => lock = d
            /\ dpcPc \in {"rx", "rxclear", "tx", "txclear", "release"} => lock = "dpc")
    /\ [][\A d \in Directions :
            LET bit == IF d = "rx" THEN "Rx" ELSE "Tx"
            IN /\ (setPc[d] = "mask" /\ setPc'[d] = "idle" /\ setArg[d] # NULL) =>
                     /\ Slot(context', d) = setArg[d]
                     /\ bit \in ClassesOf(context'.interruptsWanted)
                     /\ hw'.DmaCh0InterruptEnable[bit]
                     /\ notified'[d] = 0
                     /\ lock' = "free"
               /\ (Slot(context, d) # NULL /\ Slot(context', d) = NULL) =>
                     \/ setPc[d] = "idle" /\ setPc'[d] = "mask"
                     \/ /\ dpcPc = (IF d = "rx" THEN "rxclear" ELSE "txclear")
                        /\ notified[d] = 1
                        /\ lock = "dpc"
       ]_vars

\* The receive queue has been registered again while the DPC that notified
\* the transmit queue is still in its loop, with a receive event pending.
C28_Witness ==
    /\ lastCall.op = "enable"
    /\ lastCall.bits = InterruptsRx
    /\ context.rxQueue = QueueOf("rx")
    /\ hw.DmaCh0InterruptEnable.Rx
    /\ notified["rx"] = 0
    /\ dpcPc = "loop"
    /\ context.txQueue = NULL
    /\ notified["tx"] = 1
    /\ "Rx" \in hw.DmaCh0Status
    /\ lock = "free"


\* C29 as stated: whatever calls of DevicePrepareHardware and
\* DeviceReleaseHardware came before, a call of DevicePrepareHardware starts
\* with context->regs and context->interrupt both null.
C29_AcquireEntryClean ==
    [][(devState = "Unattached" /\ pnpPc = "idle" /\ pnpPc' # "idle") =>
          /\ context.regs = NULL
          /\ context.interrupt = NULL
      ]_vars


\* C30 as stated: when the block "Set up MAC address" has run with no
\* configured address accepted, the current MAC address has its multicast bit
\* clear and is neither all zeros nor all ones, whatever MacAddress[0] held.
C30_CurrentMacUsable ==
    (pnpPc = "prep_features" /\ ~prep.configHasMacAddress) =>
        LET cur == context.currentMacAddress
        IN /\ ~ETH_IS_MULTICAST(cur)
           /\ \E i \in 1..6 : cur[i] # 0
           /\ \E i \in 1..6 : cur[i] # 255

=============================================================================
